---- MODULE Spec2Model ----
(***************************************************************************)
(* Model of dbmap: the error-latched coordinators DbType (dbmap.go) and    *)
(* WrapType (wrap.go) running against a database/sql engine.               *)
(*                                                                         *)
(* Every public method is one action.  The body of a method is written as  *)
(* an operator on a "machine" record m that holds every field the method   *)
(* can read or write (the coordinator's fields, the engine's state and the *)
(* log of engine calls made so far); helper methods compose by passing m.  *)
(* The engine is an external collaborator: each of its calls may fail, and *)
(* the set F of an action names the positions of the calls that do.        *)
(***************************************************************************)
EXTENDS Integers, Sequences, FiniteSets, TLC

VARIABLES
    api,        \* which coordinator the program uses: "db" or "wrap"
    db,         \* the DbType handle: tx, err, stmtMap, dscMap
    share,      \* shareType objects: tx, errVal
    sharePtr,   \* WrapType.sharePtr of each wrapper
    wrap,       \* each WrapType's own fields: insert.st, sel.rows, sel.args, res
    eng,        \* the engine: open transaction, committed table, open transaction's table
    last,       \* the call made most recently and the coordinator it was made on
    calls,      \* the engine calls that call made, in order
    ret,        \* what that call returned
    gor         \* the goroutines that share the DbType handle: where each stands in
                \* dscFromType, the type it describes and its local descriptor

vars == <<api, db, share, sharePtr, wrap, eng, last, calls, ret, gor>>

----------------------------------------------------------------------------
(* Bounds *)

MaxRows == 1        \* row identifiers 1..MaxRows
MaxRecs == 2        \* records in the slice given to bulk Insert
MaxLen == 1         \* length of the destination slice when Retrieve is called
MaxFail == 1         \* consecutive engine calls of one operation that fail

----------------------------------------------------------------------------
(* Values *)

Nil == "nil"                \* the nil error
NoTx == 0                   \* the nil *sql.Tx
NoStmt == [text |-> "", tx |-> NoTx]    \* the nil *sql.Stmt
NoResult == [id |-> 0, n |-> 0]         \* the nil sql.Result
NoRows == [open |-> FALSE, data |-> <<>>]   \* the nil *sql.Rows

\* the errors the engine returns: for a statement, a query or a row, and for
\* a transaction
ErrStmt == "engine: statement failed"
ErrTx == "engine: transaction failed"

AppErrors == {"application error"}

Wrappers == {"w1", "w2"}
Shares == {1, 2}

Max(S) == IF S = {} THEN 0 ELSE CHOOSE x \in S : \A y \in S : y <= x

RECURSIVE Join(_, _)
Join(list, sep) ==
    IF list = <<>> THEN ""
    ELSE IF Len(list) = 1 THEN list[1]
    ELSE list[1] \o sep \o Join(Tail(list), sep)

RECURSIVE SortedSeq(_)
SortedSeq(S) ==
    IF S = {} THEN <<>>
    ELSE LET x == CHOOSE y \in S : \A z \in S : y <= z
         IN <<x>> \o SortedSeq(S \ {x})

strIf(cond, aStr, bStr) == IF cond THEN aStr ELSE bStr

prePad_none(str) == str

prePad(str) == IF Len(str) > 0 THEN " " \o str ELSE str

----------------------------------------------------------------------------
(* The engine: database/sql over one SQLite database holding the table rec. *)
(* A table state is [exists, cols, rows, cell]: the columns the table was   *)
(* created with, the identifiers of its rows and the column values of each  *)
(* row; eng.store is the committed one and eng.work the one seen inside the *)
(* open transaction.                                                        *)

NoTable == [exists |-> FALSE, cols |-> <<>>, rows |-> {}, cell |-> <<>>]

\* the tails that select the row with one identifier, and the texts with them
IdDigits == <<"1", "2", "3", "4">>

WhereId(id) == "WHERE rowid = " \o IdDigits[id]

WhereText(head, id) == head \o " " \o WhereId(id) \o ";"

WhereDelete == {WhereText("DELETE FROM rec", id) : id \in 1..Len(IdDigits)}

WhereSelectA == {WhereText("SELECT rowid, A FROM rec", id) : id \in 1..Len(IdDigits)}

WhereSelectAB == {WhereText("SELECT rowid, A, B FROM rec", id) : id \in 1..Len(IdDigits)}

\* the identifiers text filters by; none when it has no filter
WhereIds(text) ==
    {id \in 1..Len(IdDigits) :
        text \in {WhereText("DELETE FROM rec", id), WhereText("SELECT rowid, A FROM rec", id),
                  WhereText("SELECT rowid, A, B FROM rec", id)}}

SqlKind(text) ==
    CASE text = "DROP TABLE IF EXISTS rec;" -> "droptable"
      [] text = "DROP INDEX IF EXISTS recA;" -> "dropindex"
      [] text = "CREATE TABLE rec (A integer);" -> "createtable"
      [] text = "CREATE TABLE rec (A integer, B integer);" -> "createtable"
      [] text = "CREATE INDEX recA ON rec (A);" -> "createindex"
      [] text = "CREATE INDEX rec_a ON rec (A)" -> "createindex"
      [] text = "INSERT INTO rec (A) VALUES (?);" -> "insert"
      [] text = "INSERT INTO rec (A, B) VALUES (?, ?);" -> "insert"
      [] text = "INSERT OR REPLACE INTO rec (A) VALUES (?);" -> "replace"
      [] text = "INSERT OR REPLACE INTO rec (A, B) VALUES (?, ?);" -> "replace"
      [] text = "UPDATE rec SET A = ? WHERE rowid = ?;" -> "update"
      [] text = "UPDATE rec SET B = ? WHERE rowid = ?;" -> "update"
      [] text = "UPDATE rec SET A = ?, B = ? WHERE rowid = ?;" -> "update"
      [] text = "UPDATE rec SET X = ? WHERE rowid = ?;" -> "update"
      [] text = "DELETE FROM rec;" -> "delete"
      [] text = "SELECT rowid, A FROM rec;" -> "select"
      [] text = "SELECT rowid, A, B FROM rec;" -> "select"
      [] text \in WhereDelete -> "delete"
      [] text \in WhereSelectA \cup WhereSelectAB -> "select"
      [] OTHER -> "bad"

\* the columns text names, in the order it names them
SqlCols(text) ==
    CASE text \in {"CREATE TABLE rec (A integer);", "CREATE INDEX recA ON rec (A);",
                   "CREATE INDEX rec_a ON rec (A)", "INSERT INTO rec (A) VALUES (?);",
                   "INSERT OR REPLACE INTO rec (A) VALUES (?);",
                   "UPDATE rec SET A = ? WHERE rowid = ?;", "SELECT rowid, A FROM rec;"}
             \cup WhereSelectA -> <<"A">>
      [] text \in {"CREATE TABLE rec (A integer, B integer);",
                   "INSERT INTO rec (A, B) VALUES (?, ?);",
                   "INSERT OR REPLACE INTO rec (A, B) VALUES (?, ?);",
                   "UPDATE rec SET A = ?, B = ? WHERE rowid = ?;",
                   "SELECT rowid, A, B FROM rec;"}
             \cup WhereSelectAB -> <<"A", "B">>
      [] text = "UPDATE rec SET B = ? WHERE rowid = ?;" -> <<"B">>
      [] text = "UPDATE rec SET X = ? WHERE rowid = ?;" -> <<"X">>
      [] OTHER -> <<>>

\* the rows among rows that text applies to
SqlMatch(text, rows) ==
    IF text \in WhereDelete \cup WhereSelectA \cup WhereSelectAB
    THEN rows \cap WhereIds(text)
    ELSE rows

NeedsTable(kind) == kind \in {"createindex", "insert", "replace", "update", "delete", "select"}

Range(seq) == {seq[i] : i \in 1..Len(seq)}

Pos(seq, x) == CHOOSE i \in 1..Len(seq) : seq[i] = x

\* whether the engine compiles text against table state t
SqlCompiles(text, t) ==
    /\ SqlKind(text) # "bad"
    /\ NeedsTable(SqlKind(text)) => t.exists /\ Range(SqlCols(text)) \subseteq Range(t.cols)

\* the effect of executing text with arguments args on table state t of an
\* engine that holds at most cap rows
SqlRun(text, args, t, cap) ==
    LET kind == SqlKind(text)
        cols == SqlCols(text)
    IN
    CASE kind = "droptable" ->
            [ok |-> TRUE, t |-> NoTable, res |-> NoResult]
      [] kind = "dropindex" ->
            [ok |-> TRUE, t |-> t, res |-> NoResult]
      [] kind = "createtable" ->
            [ok |-> ~t.exists, t |-> [NoTable EXCEPT !.exists = TRUE, !.cols = cols],
             res |-> NoResult]
      [] kind = "createindex" ->
            [ok |-> t.exists, t |-> t, res |-> NoResult]
      [] kind \in {"insert", "replace"} ->
            LET id == Max(t.rows) + 1 IN
            [ok |-> t.exists /\ id <= cap /\ Len(args) = Len(cols),
             t |-> [t EXCEPT !.rows = @ \cup {id},
                             !.cell = [i \in t.rows \cup {id} |->
                                         IF i = id
                                         THEN [c \in Range(cols) |-> args[Pos(cols, c)]]
                                         ELSE @[i]]],
             res |-> [id |-> id, n |-> 1]]
      [] kind = "update" ->
            [ok |-> t.exists /\ Len(args) = Len(cols) + 1,
             t |-> [t EXCEPT !.cell = [i \in t.rows |->
                                         IF i = args[Len(args)]
                                         THEN [c \in DOMAIN @[i] |->
                                                 IF c \in Range(cols) THEN args[Pos(cols, c)]
                                                 ELSE @[i][c]]
                                         ELSE @[i]]],
             res |-> [id |-> 0, n |-> Cardinality(t.rows \cap {args[Len(args)]})]]
      [] kind = "delete" ->
            [ok |-> t.exists,
             t |-> [t EXCEPT !.rows = @ \ SqlMatch(text, t.rows),
                             !.cell = [i \in t.rows \ SqlMatch(text, t.rows) |-> @[i]]],
             res |-> [id |-> 0, n |-> Cardinality(SqlMatch(text, t.rows))]]
      [] OTHER ->
            [ok |-> FALSE, t |-> t, res |-> NoResult]

\* the row with identifier id of table state t as text selects it
SqlRow(text, t, id) == <<id>> \o [i \in 1..Len(SqlCols(text)) |-> t.cell[id][SqlCols(text)[i]]]

Fails(m) == (Len(m.calls) + 1) \in m.F     \* the engine call made next fails

Logged(m, op, tx, text, ok) ==
    Append(m.calls, [op |-> op, tx |-> tx, text |-> text, ok |-> ok])

TxOpen(m, t) == t # NoTx /\ m.open = t

\* the table state a statement running in transaction t (or on the connection) sees
View(m, t) == IF t # NoTx THEN m.work ELSE m.store

\* the engine has one transaction open at a time: LiveTx is the handle of the
\* open one, DoneTx the handle of any that was committed or rolled back (all
\* of them answer alike)
LiveTx == 1
DoneTx == 2

\* sql.DB.Begin
Begin(m) ==
    IF Fails(m) \/ m.open # NoTx
    THEN [m EXCEPT !.calls = Logged(m, "begin", NoTx, "", FALSE),
                   !.e = ErrTx, !.vTx = NoTx]
    ELSE [m EXCEPT !.calls = Logged(m, "begin", LiveTx, "", TRUE),
                   !.open = LiveTx, !.work = m.store,
                   !.e = Nil, !.vTx = LiveTx]

\* sql.Tx.Commit
Commit(m, t) ==
    IF ~TxOpen(m, t)
    THEN [m EXCEPT !.calls = Logged(m, "commit", t, "", FALSE), !.e = ErrTx]
    ELSE IF Fails(m)
    THEN [m EXCEPT !.calls = Logged(m, "commit", t, "", FALSE),
                   !.open = NoTx, !.work = m.store, !.e = ErrTx]
    ELSE [m EXCEPT !.calls = Logged(m, "commit", t, "", TRUE),
                   !.open = NoTx, !.store = m.work, !.e = Nil]

\* sql.Tx.Rollback
Rollback(m, t) ==
    IF ~TxOpen(m, t)
    THEN [m EXCEPT !.calls = Logged(m, "rollback", t, "", FALSE), !.e = ErrTx]
    ELSE IF Fails(m)
    THEN [m EXCEPT !.calls = Logged(m, "rollback", t, "", FALSE),
                   !.open = NoTx, !.work = m.store, !.e = ErrTx]
    ELSE [m EXCEPT !.calls = Logged(m, "rollback", t, "", TRUE),
                   !.open = NoTx, !.work = m.store, !.e = Nil]

\* sql.DB.Prepare (t = NoTx) and sql.Tx.Prepare
Prepare(m, text, t) ==
    IF t # NoTx /\ ~TxOpen(m, t)
    THEN [m EXCEPT !.calls = Logged(m, "prepare", t, text, FALSE),
                   !.e = ErrTx, !.vStmt = NoStmt]
    ELSE IF Fails(m)
    THEN [m EXCEPT !.calls = Logged(m, "prepare", t, text, FALSE),
                   !.e = ErrStmt, !.vStmt = NoStmt]
    ELSE IF ~SqlCompiles(text, View(m, t))
    THEN [m EXCEPT !.calls = Logged(m, "prepare", t, text, FALSE),
                   !.e = ErrStmt, !.vStmt = NoStmt]
    ELSE [m EXCEPT !.calls = Logged(m, "prepare", t, text, TRUE),
                   !.e = Nil, !.vStmt = [text |-> text, tx |-> t]]

\* sql.Tx.Stmt: the statement stmt bound to transaction t
TxStmt(stmt, t) == [stmt EXCEPT !.tx = t]

\* the engine runs text in transaction t (or on the connection when t = NoTx)
Run(m, op, text, args, t) ==
    IF t # NoTx /\ ~TxOpen(m, t)
    THEN [m EXCEPT !.calls = Logged(m, op, t, text, FALSE),
                   !.e = ErrTx, !.vRes = NoResult]
    ELSE IF Fails(m)
    THEN [m EXCEPT !.calls = Logged(m, op, t, text, FALSE),
                   !.e = ErrStmt, !.vRes = NoResult]
    ELSE LET r == SqlRun(text, args, View(m, t), m.cap) IN
         IF ~r.ok
         THEN [m EXCEPT !.calls = Logged(m, op, t, text, FALSE),
                        !.e = ErrStmt, !.vRes = NoResult]
         ELSE [m EXCEPT !.calls = Logged(m, op, t, text, TRUE),
                        !.e = Nil, !.vRes = r.res,
                        !.work = IF t # NoTx \/ m.open = NoTx THEN r.t
                                 ELSE IF SqlRun(text, args, m.work, m.cap).ok
                                 THEN SqlRun(text, args, m.work, m.cap).t ELSE @,
                        !.store = IF t = NoTx THEN r.t ELSE @]

\* sql.Stmt.Exec
StmtExec(m, stmt, args) == Run(m, "exec", stmt.text, args, stmt.tx)

\* sql.DB.Exec (t = NoTx) and sql.Tx.Exec
Exec(m, text, args, t) == Run(m, "exec", text, args, t)

\* the rows text selects in transaction t (or on the connection)
Select(m, op, text, t) ==
    IF t # NoTx /\ ~TxOpen(m, t)
    THEN [m EXCEPT !.calls = Logged(m, op, t, text, FALSE),
                   !.e = ErrTx, !.vRows = NoRows]
    ELSE IF Fails(m)
    THEN [m EXCEPT !.calls = Logged(m, op, t, text, FALSE),
                   !.e = ErrStmt, !.vRows = NoRows]
    ELSE IF SqlKind(text) # "select" \/ ~SqlCompiles(text, View(m, t))
    THEN [m EXCEPT !.calls = Logged(m, op, t, text, FALSE),
                   !.e = ErrStmt, !.vRows = NoRows]
    ELSE [m EXCEPT !.calls = Logged(m, op, t, text, TRUE), !.e = Nil,
                   !.vRows = [open |-> TRUE,
                              data |-> [i \in 1..Cardinality(SqlMatch(text, View(m, t).rows)) |->
                                         SqlRow(text, View(m, t),
                                                SortedSeq(SqlMatch(text, View(m, t).rows))[i])]]]

\* sql.Stmt.Query
StmtQuery(m, stmt) == Select(m, "query", stmt.text, stmt.tx)

\* sql.DB.Query (t = NoTx) and sql.Tx.Query
Query(m, text, t) == Select(m, "query", text, t)

\* sql.Rows.Scan of the row the cursor stands on
Scan(m) ==
    IF Fails(m)
    THEN [m EXCEPT !.calls = Logged(m, "scan", NoTx, "", FALSE), !.e = ErrStmt]
    ELSE [m EXCEPT !.calls = Logged(m, "scan", NoTx, "", TRUE), !.e = Nil]

----------------------------------------------------------------------------
(* Record types of the application, as reflect presents them: a kind and,  *)
(* for a structure, its fields with their type and db* tags.               *)

Field(name, type, dbTag, primary, table, index) ==
    [Name |-> name, Type |-> type, db |-> dbTag, db_primary |-> primary,
     db_table |-> table, db_index |-> index]

NoField == Field("", "", "", "", "", "")

StructTypes ==
    [ recType |-> << Field("ID", "int64", "", "*", "rec", ""),
                     Field("A", "int64", "*", "", "", "*") >>,
      abType  |-> << Field("ID", "int64", "", "*", "rec", ""),
                     Field("A", "int64", "*", "", "", ""),
                     Field("B", "int64", "*", "", "", "") >>,
      aType   |-> << Field("ID", "bool", "", "*", "a", ""),
                     Field("Val", "int64", "*", "", "", "") >>,
      eType   |-> << Field("Val", "int64", "*", "", "", "") >>,
      nType   |-> << Field("A", "int64", "*", "", "rec", "") >> ]

TypeNames == DOMAIN StructTypes \cup {"int"}

IsStruct(tp) == tp \in DOMAIN StructTypes

\* a record of type tp with every field zero
ZeroRec(tp) == [f \in {StructTypes[tp][i].Name : i \in 1..Len(StructTypes[tp])} |-> 0]

\* values the application passes: a structure, a pointer to one, a slice, a
\* pointer to a slice, or an int; val is the structure
RecArgs == {[kind |-> "ptr", elem |-> "struct", tp |-> "recType", val |-> ZeroRec("recType")]}

\* valueInterfaceList: the values of the fields sfList of record rec
valueInterfaceList(rec, sfList) == [i \in 1..Len(sfList) |-> rec[sfList[i].Name]]

\* valueInterfaceAddrList and sql.Rows.Scan: record rec after row was scanned
\* into its fields sfList
scanInto(rec, sfList, row) ==
    [f \in DOMAIN rec |->
       IF \E i \in 1..Len(sfList) : sfList[i].Name = f
       THEN row[CHOOSE i \in 1..Len(sfList) : sfList[i].Name = f]
       ELSE rec[f]]

\* reflect.Type.Kind as %v prints it, for the types of the model
Kind(tp) ==
    CASE tp = "func()" -> "func"
      [] tp = "[]uint8" -> "slice"
      [] OTHER -> tp

typeMap ==
    [ x \in {"[]uint8", "bool", "byte", "float", "float32", "float64", "int",
             "int16", "int32", "int64", "int8", "rune", "string", "uint",
             "uint16", "uint32", "uint64", "uint8"} |->
        CASE x = "[]uint8" -> "blob"
          [] x \in {"float", "float32", "float64"} -> "real"
          [] x = "string" -> "text"
          [] OTHER -> "integer" ]

----------------------------------------------------------------------------
(* DbType (dbmap.go): descriptors *)

dscZero ==
    [tblStr |-> "", idPresent |-> FALSE, idSf |-> NoField, recTp |-> "",
     nameMap |-> [x \in {} |-> NoField],
     nameTypeStr |-> "", idxList |-> <<>>,
     insNameStr |-> "", nameList |-> <<>>, qmStr |-> "", insSfList |-> <<>>,
     selNameStr |-> "", selSfList |-> <<>>, typeStrList |-> <<>>]

\* DbType.SetErrorf
SetErrorf(m, msg) == IF m.err = Nil THEN [m EXCEPT !.err = msg] ELSE m

\* one round of the field loop of dscFromType; L holds the locals
dscField(L, sf) ==
    IF L.err # Nil THEN L
    ELSE
    LET L1 ==
          IF Len(sf.db) > 0
          THEN LET sqlStr == IF sf.db = "*" THEN sf.Name ELSE sf.db IN
               IF sf.Type \in DOMAIN typeMap
               THEN [L EXCEPT
                       !.dsc.nameMap = (sqlStr :> sf) @@ @,
                       !.createList = Append(@, sqlStr \o " " \o typeMap[sf.Type]),
                       !.dsc.idxList = IF Len(sf.db_index) > 0
                                       THEN Append(@, [nameStr |-> sf.Name, fldStr |-> sqlStr])
                                       ELSE @,
                       !.dsc.insSfList = Append(@, sf),
                       !.dsc.nameList = Append(@, sqlStr),
                       !.qmList = Append(@, "?"),
                       !.dsc.typeStrList = Append(@, typeMap[sf.Type]),
                       !.selList = Append(@, sqlStr),
                       !.dsc.selSfList = Append(@, sf)]
               ELSE [L EXCEPT !.err = "database does not support fields of type " \o sf.Type]
          ELSE IF Len(sf.db_primary) > 0
          THEN IF ~L.dsc.idPresent
               THEN IF sf.Type = "int64"
                    THEN [L EXCEPT
                            !.selList = Append(@, "rowid"),
                            !.dsc.selSfList = Append(@, sf),
                            !.dsc.typeStrList = Append(@, "int64"),
                            !.dsc.idSf = sf,
                            !.dsc.idPresent = TRUE]
                    ELSE [L EXCEPT !.err = "expecting int64 for id, got " \o Kind(sf.Type)]
               ELSE [L EXCEPT !.err = "multiple occurrence of \"db_primary\" tag"]
          ELSE L
    IN  IF L1.err = Nil /\ Len(sf.db_table) > 0
        THEN IF Len(L1.dsc.tblStr) = 0
             THEN [L1 EXCEPT !.dsc.tblStr = sf.db_table]
             ELSE [L1 EXCEPT !.err = "multiple occurrence of \"db_table\" tag"]
        ELSE L1

RECURSIVE dscFields(_, _)
dscFields(L, sfList) ==
    IF sfList = <<>> THEN L ELSE dscFields(dscField(L, Head(sfList)), Tail(sfList))

\* DbType.dscFromType as it would be if it cached the descriptor before it
\* looked for managed columns and the table name
dscFromType_early(m, recTp, primaryKeyRequired) ==
    IF m.err # Nil THEN [m EXCEPT !.dsc = dscZero]
    ELSE IF IsStruct(recTp)
    THEN LET store(dsc) == [m EXCEPT !.dsc = dsc, !.dscMap = (recTp :> dsc) @@ @]
             build(L) ==
               IF L.err # Nil THEN [m EXCEPT !.err = L.err, !.dsc = L.dsc]
               ELSE IF Len(L.dsc.insSfList) = 0
               THEN [store(L.dsc) EXCEPT !.err = "no structure fields have \"db\" tag"]
               ELSE IF Len(L.dsc.tblStr) = 0
               THEN [store(L.dsc) EXCEPT !.err = "missing \"db_table\" tag"]
               ELSE store([L.dsc EXCEPT
                             !.qmStr = Join(L.qmList, ", "),
                             !.insNameStr = Join(L.dsc.nameList, ", "),
                             !.nameTypeStr = Join(L.createList, ", "),
                             !.selNameStr = Join(L.selList, ", ")])
             check(m1) ==
               IF primaryKeyRequired /\ ~m1.dsc.idPresent
               THEN SetErrorf(m1, "primary key is required but is not present in structure")
               ELSE m1
         IN check(IF recTp \in DOMAIN m.dscMap
                  THEN [m EXCEPT !.dsc = m.dscMap[recTp]]
                  ELSE build(dscFields([err |-> Nil, dsc |-> [dscZero EXCEPT !.recTp = recTp],
                                        selList |-> <<>>, qmList |-> <<>>, createList |-> <<>>],
                                       StructTypes[recTp])))
    ELSE [SetErrorf(m, "specified address must be of structure with one or more fields that have a \"db\" tag")
            EXCEPT !.dsc = dscZero]

\* DbType.dscFromType: the descriptor of recTp is left in m.dsc
dscFromType(m, recTp, primaryKeyRequired) ==
    IF m.err # Nil THEN [m EXCEPT !.dsc = dscZero]
    ELSE IF IsStruct(recTp)
    THEN LET store(dsc) == [m EXCEPT !.dsc = dsc, !.dscMap = (recTp :> dsc) @@ @]
             build(L) ==
               IF L.err # Nil THEN [m EXCEPT !.err = L.err, !.dsc = L.dsc]
               ELSE IF Len(L.dsc.insSfList) = 0
               THEN [m EXCEPT !.err = "no structure fields have \"db\" tag", !.dsc = L.dsc]
               ELSE IF Len(L.dsc.tblStr) = 0
               THEN [m EXCEPT !.err = "missing \"db_table\" tag", !.dsc = L.dsc]
               ELSE store([L.dsc EXCEPT
                             !.qmStr = Join(L.qmList, ", "),
                             !.insNameStr = Join(L.dsc.nameList, ", "),
                             !.nameTypeStr = Join(L.createList, ", "),
                             !.selNameStr = Join(L.selList, ", ")])
             check(m1) ==
               IF primaryKeyRequired /\ ~m1.dsc.idPresent
               THEN SetErrorf(m1, "primary key is required but is not present in structure")
               ELSE m1
         IN check(IF recTp \in DOMAIN m.dscMap
                  THEN [m EXCEPT !.dsc = m.dscMap[recTp]]
                  ELSE build(dscFields([err |-> Nil, dsc |-> [dscZero EXCEPT !.recTp = recTp],
                                        selList |-> <<>>, qmList |-> <<>>, createList |-> <<>>],
                                       StructTypes[recTp])))
    ELSE [SetErrorf(m, "specified address must be of structure with one or more fields that have a \"db\" tag")
            EXCEPT !.dsc = dscZero]

\* DbType.dscFromPtr
dscFromPtr(m, recPtr, primaryKeyRequired) ==
    IF recPtr.kind = "ptr"
    THEN dscFromType(m, recPtr.tp, primaryKeyRequired)
    ELSE [SetErrorf(m, "expecting record pointer, got " \o recPtr.kind) EXCEPT !.dsc = dscZero]

----------------------------------------------------------------------------
(* DbType (dbmap.go): transactions and statements *)

\* DbType.TransactBegin
TransactBegin(m) ==
    IF m.err = Nil
    THEN IF m.tx = NoTx
         THEN LET set(b) == [b EXCEPT !.tx = b.vTx, !.err = b.e] IN set(Begin(m))
         ELSE m
    ELSE m

\* DbType.transactEnd saying nothing when there is no transaction to end
transactEnd_quiet(m, ok) ==
    IF m.tx # NoTx
    THEN LET set(c) == [c EXCEPT !.err = c.e, !.tx = NoTx]
         IN set(IF ok THEN Commit(m, m.tx) ELSE Rollback(m, m.tx))
    ELSE m

\* DbType.transactEnd
transactEnd(m, ok) ==
    IF m.tx # NoTx
    THEN LET set(c) == [c EXCEPT !.err = c.e, !.tx = NoTx]
         IN set(IF ok THEN Commit(m, m.tx) ELSE Rollback(m, m.tx))
    ELSE IF m.err = Nil
         THEN SetErrorf(m, "no transaction to " \o strIf(ok, "commit", "rollback"))
         ELSE m

\* DbType.TransactCommit without the test of the sticky error
TransactCommit_unguarded(m) == transactEnd(m, TRUE)

\* DbType.TransactCommit
TransactCommit(m) == IF m.err = Nil THEN transactEnd(m, TRUE) ELSE m

\* DbType.TransactRollback
TransactRollback(m) == IF m.err = Nil THEN transactEnd(m, FALSE) ELSE m

\* DbType.statement: the statement is left in m.vStmt
statement_keep(m, cmdStr) ==
    IF cmdStr \in DOMAIN m.stmtMap
    THEN [m EXCEPT !.vStmt = m.stmtMap[cmdStr]]
    ELSE LET set(p) == [p EXCEPT !.err = p.e, !.stmtMap = (cmdStr :> p.vStmt) @@ @]
         IN set(Prepare(m, cmdStr, NoTx))

\* DbType.statement: the statement of cmdStr is left in m.vStmt
statement(m, cmdStr) ==
    IF cmdStr \in DOMAIN m.stmtMap
    THEN [m EXCEPT !.vStmt = m.stmtMap[cmdStr]]
    ELSE LET set(p) == [p EXCEPT !.err = p.e,
                                 !.stmtMap = IF p.e = Nil THEN (cmdStr :> p.vStmt) @@ @ ELSE @]
         IN set(Prepare(m, cmdStr, NoTx))

\* DbType.Exec: the result is left in m.vRes
DbExec(m, cmdStr, prms) ==
    IF m.err # Nil THEN [m EXCEPT !.vRes = NoResult]
    ELSE LET set(x) == [x EXCEPT !.err = x.e]
             exec(s) ==
               IF s.err = Nil
               THEN set(StmtExec(s, IF s.tx # NoTx THEN TxStmt(s.vStmt, s.tx) ELSE s.vStmt,
                                 prms))
               ELSE [s EXCEPT !.vRes = NoResult]
         IN exec(statement(m, cmdStr))

\* DbType.Query: the cursor is left in m.vRows
DbQuery(m, cmdStr) ==
    IF m.err # Nil THEN [m EXCEPT !.vRows = NoRows]
    ELSE LET set(x) == [x EXCEPT !.err = x.e]
             query(s) ==
               IF s.err = Nil
               THEN set(StmtQuery(s, IF s.tx # NoTx THEN TxStmt(s.vStmt, s.tx) ELSE s.vStmt))
               ELSE [s EXCEPT !.vRows = NoRows]
         IN query(statement(m, cmdStr))

----------------------------------------------------------------------------
(* DbType (dbmap.go): operations *)

RECURSIVE ExecEach(_, _)
\* for _, cmd := range cmds { _ = db.Exec(cmd) }
ExecEach(m, cmds) ==
    IF cmds = <<>> THEN m ELSE ExecEach(DbExec(m, Head(cmds), <<>>), Tail(cmds))

\* DbType.TableCreate as it would be without the DROP statements
TableCreate_nodrop(m, recPtr) ==
    IF m.err # Nil THEN m
    ELSE LET create(d, x) ==
               IF x.err = Nil
               THEN ExecEach(DbExec(x, "CREATE TABLE " \o d.dsc.tblStr \o " ("
                                         \o d.dsc.nameTypeStr \o ");", <<>>),
                             [i \in 1..Len(d.dsc.idxList) |->
                                "CREATE INDEX " \o d.dsc.tblStr \o d.dsc.idxList[i].nameStr
                                  \o " ON " \o d.dsc.tblStr
                                  \o " (" \o d.dsc.idxList[i].fldStr \o ");"])
               ELSE x
             drop(d) == IF d.err = Nil THEN create(d, d) ELSE d
         IN drop(dscFromPtr(m, recPtr, FALSE))

\* DbType.TableCreate
TableCreate(m, recPtr) ==
    IF m.err # Nil THEN m
    ELSE LET create(d, x) ==
               IF x.err = Nil
               THEN ExecEach(DbExec(x, "CREATE TABLE " \o d.dsc.tblStr \o " ("
                                         \o d.dsc.nameTypeStr \o ");", <<>>),
                             [i \in 1..Len(d.dsc.idxList) |->
                                "CREATE INDEX " \o d.dsc.tblStr \o d.dsc.idxList[i].nameStr
                                  \o " ON " \o d.dsc.tblStr
                                  \o " (" \o d.dsc.idxList[i].fldStr \o ");"])
               ELSE x
             drop(d) ==
               IF d.err = Nil
               THEN create(d, ExecEach(DbExec(d, "DROP TABLE IF EXISTS " \o d.dsc.tblStr \o ";", <<>>),
                                       [i \in 1..Len(d.dsc.idxList) |->
                                          "DROP INDEX IF EXISTS " \o d.dsc.tblStr
                                            \o d.dsc.idxList[i].nameStr \o ";"]))
               ELSE d
         IN drop(dscFromPtr(m, recPtr, FALSE))

\* DbType.Update as it would be if it stored every column whatever fldNames
\* names
DbUpdate_every(m, recPtr, fldNames) ==
    IF m.err # Nil THEN m
    ELSE IF Len(fldNames) > 0
    THEN LET end(x) == transactEnd(x, x.err = Nil)
             cmd(tblStr, names) ==
               "UPDATE " \o tblStr \o " SET "
                 \o Join([i \in 1..Len(names) |-> names[i] \o " = ?"], ", ")
                 \o " WHERE rowid = ?;"
             exec(b, cmdStr, args) == IF b.err = Nil THEN DbExec(b, cmdStr, args) ELSE b
             args(dsc, names) ==
               [i \in 1..Len(names) |-> recPtr.val[dsc.nameMap[names[i]].Name]]
                 \o <<recPtr.val[dsc.idSf.Name]>>
             set(d, names) ==
               IF \A i \in 1..Len(names) : names[i] \in DOMAIN d.dsc.nameMap
               THEN end(exec(TransactBegin(d), cmd(d.dsc.tblStr, names), args(d.dsc, names)))
               ELSE [d EXCEPT !.panic = TRUE]
             update(d) == IF d.err = Nil THEN set(d, d.dsc.nameList) ELSE d
         IN update(dscFromPtr(m, recPtr, TRUE))
    ELSE SetErrorf(m, "at least one field name expected in function Update")

\* DbType.Update; a name that is no column leaves reflect.NewAt without a
\* type, which panics
DbUpdate(m, recPtr, fldNames) ==
    IF m.err # Nil THEN m
    ELSE IF Len(fldNames) > 0
    THEN LET end(x) == transactEnd(x, x.err = Nil)
             cmd(tblStr, names) ==
               "UPDATE " \o tblStr \o " SET "
                 \o Join([i \in 1..Len(names) |-> names[i] \o " = ?"], ", ")
                 \o " WHERE rowid = ?;"
             exec(b, cmdStr, args) == IF b.err = Nil THEN DbExec(b, cmdStr, args) ELSE b
             args(dsc, names) ==
               [i \in 1..Len(names) |-> recPtr.val[dsc.nameMap[names[i]].Name]]
                 \o <<recPtr.val[dsc.idSf.Name]>>
             set(d, names) ==
               IF \A i \in 1..Len(names) : names[i] \in DOMAIN d.dsc.nameMap
               THEN end(exec(TransactBegin(d), cmd(d.dsc.tblStr, names), args(d.dsc, names)))
               ELSE [d EXCEPT !.panic = TRUE]
             update(d) ==
               IF d.err = Nil
               THEN set(d, IF fldNames[1] = "*" THEN d.dsc.nameList ELSE fldNames)
               ELSE d
         IN update(dscFromPtr(m, recPtr, TRUE))
    ELSE SetErrorf(m, "at least one field name expected in function Update")

\* DbType.Delete as it would be if it left the tail out of the command
DbDelete_notail(m, recPtr, tailStr) ==
    IF m.err # Nil THEN m
    ELSE LET end(x) == transactEnd(x, x.err = Nil)
             exec(b, cmdStr) == IF b.err = Nil THEN DbExec(b, cmdStr, <<>>) ELSE b
             delete(d) ==
               IF d.err = Nil
               THEN end(exec(TransactBegin(d), "DELETE FROM " \o d.dsc.tblStr \o ";"))
               ELSE d
         IN delete(dscFromPtr(m, recPtr, FALSE))

\* DbType.Delete
DbDelete(m, recPtr, tailStr) ==
    IF m.err # Nil THEN m
    ELSE LET end(x) == transactEnd(x, x.err = Nil)
             exec(b, cmdStr) == IF b.err = Nil THEN DbExec(b, cmdStr, <<>>) ELSE b
             delete(d) ==
               IF d.err = Nil
               THEN end(exec(TransactBegin(d),
                             "DELETE FROM " \o d.dsc.tblStr \o prePad(tailStr) \o ";"))
               ELSE d
         IN delete(dscFromPtr(m, recPtr, FALSE))

\* DbType.Truncate committing whatever its statement returned
Truncate_commit(m, recPtr) ==
    IF m.err # Nil THEN m
    ELSE LET end(x) == transactEnd(x, TRUE)
             exec(b, cmdStr) == IF b.err = Nil THEN DbExec(b, cmdStr, <<>>) ELSE b
             delete(d) ==
               IF d.err = Nil
               THEN end(exec(TransactBegin(d), "DELETE FROM " \o d.dsc.tblStr \o ";"))
               ELSE d
         IN delete(dscFromPtr(m, recPtr, FALSE))

\* DbType.Truncate as it would be if it deleted the first row only
Truncate_first(m, recPtr) ==
    IF m.err # Nil THEN m
    ELSE LET end(x) == transactEnd(x, x.err = Nil)
             exec(b, cmdStr) == IF b.err = Nil THEN DbExec(b, cmdStr, <<>>) ELSE b
             delete(d) ==
               IF d.err = Nil
               THEN end(exec(TransactBegin(d),
                             "DELETE FROM " \o d.dsc.tblStr \o " WHERE rowid = 1;"))
               ELSE d
         IN delete(dscFromPtr(m, recPtr, FALSE))

\* DbType.Truncate
Truncate(m, recPtr) ==
    IF m.err # Nil THEN m
    ELSE LET end(x) == transactEnd(x, x.err = Nil)
             exec(b, cmdStr) == IF b.err = Nil THEN DbExec(b, cmdStr, <<>>) ELSE b
             delete(d) ==
               IF d.err = Nil
               THEN end(exec(TransactBegin(d), "DELETE FROM " \o d.dsc.tblStr \o ";"))
               ELSE d
         IN delete(dscFromPtr(m, recPtr, FALSE))

RECURSIVE InsertLoop(_, _, _, _)
\* the record loop of DbType.Insert, from record recJ on; m.rl is the slice
InsertLoop(m, cmdStr, recJ, count) ==
    IF recJ > count \/ m.err # Nil THEN m
    ELSE LET setID(x) ==
               IF x.err = Nil THEN [x EXCEPT !.rl[recJ][x.dsc.idSf.Name] = x.vRes.id] ELSE x
         IN InsertLoop(setID(DbExec(m, cmdStr,
                                    valueInterfaceList(m.rl[recJ], m.dsc.insSfList))),
                       cmdStr, recJ + 1, count)

\* DbType.Insert committing whatever its record loop returned
DbInsert_commit(m, slice) ==
    IF m.err # Nil THEN m
    ELSE IF slice.kind = "slice"
    THEN LET end(x) == transactEnd(x, TRUE)
             insert(d) ==
               IF d.err = Nil
               THEN end(InsertLoop(TransactBegin(d),
                                   "INSERT INTO " \o d.dsc.tblStr \o " (" \o d.dsc.insNameStr
                                     \o ") VALUES (" \o d.dsc.qmStr \o ");",
                                   1, slice.len))
               ELSE d
         IN insert(dscFromType(m, slice.tp, TRUE))
    ELSE SetErrorf(m, "function Insert requires slice as first argument")

\* DbType.Insert
DbInsert(m, slice) ==
    IF m.err # Nil THEN m
    ELSE IF slice.kind = "slice"
    THEN LET end(x) == transactEnd(x, x.err = Nil)
             insert(d) ==
               IF d.err = Nil
               THEN end(InsertLoop(TransactBegin(d),
                                   "INSERT INTO " \o d.dsc.tblStr \o " (" \o d.dsc.insNameStr
                                     \o ") VALUES (" \o d.dsc.qmStr \o ");",
                                   1, slice.len))
               ELSE d
         IN insert(dscFromType(m, slice.tp, TRUE))
    ELSE SetErrorf(m, "function Insert requires slice as first argument")

\* sql.Rows.Next: m.more tells whether the cursor stands on a row, m.row is that row
RowsNext(m) ==
    IF ~m.vRows.open
    THEN [m EXCEPT !.more = FALSE]
    ELSE IF Fails(m)
    THEN [m EXCEPT !.calls = Logged(m, "next", NoTx, "", FALSE), !.more = FALSE,
                   !.vRows = [open |-> FALSE, data |-> <<>>], !.e = ErrStmt]
    ELSE IF m.vRows.data = <<>>
    THEN [m EXCEPT !.calls = Logged(m, "next", NoTx, "", TRUE), !.more = FALSE,
                   !.vRows = [open |-> FALSE, data |-> <<>>], !.e = Nil]
    ELSE [m EXCEPT !.calls = Logged(m, "next", NoTx, "", TRUE), !.more = TRUE,
                   !.row = Head(m.vRows.data), !.vRows.data = Tail(@), !.e = Nil]

RECURSIVE RetrieveLoop(_, _)
\* for rows.Next() { ... } of DbType.Retrieve; sliceVl is the slice value being grown
RetrieveLoop(m, sliceVl) ==
    LET scan(row, sc) ==
          RetrieveLoop([sc EXCEPT !.err = sc.e],
                       IF sc.e = Nil
                       THEN Append(sliceVl, scanInto(ZeroRec(m.dsc.recTp), m.dsc.selSfList, row))
                       ELSE sliceVl)
        step(n) ==
          IF ~n.more THEN [m |-> n, sliceVl |-> sliceVl]
          ELSE IF n.err = Nil THEN scan(n.row, Scan(n))
          ELSE RetrieveLoop(n, sliceVl)
    IN step(RowsNext(m))

\* DbType.Retrieve as it would be if it filled an empty slice value instead
\* of appending to the one slicePtr points to
Retrieve_replace(m, slicePtr, tailStr) ==
    IF m.err # Nil THEN m
    ELSE IF slicePtr.kind = "ptr"
    THEN IF slicePtr.elem = "slice"
         THEN LET set(l) == IF l.m.err = Nil THEN [l.m EXCEPT !.rl = l.sliceVl] ELSE l.m
                  loop(q) == IF q.err = Nil THEN set(RetrieveLoop(q, <<>>)) ELSE q
                  query(d) ==
                    IF d.err = Nil
                    THEN loop(DbQuery(d, "SELECT " \o d.dsc.selNameStr \o " FROM "
                                           \o d.dsc.tblStr \o prePad(tailStr) \o ";"))
                    ELSE d
              IN query(dscFromType(m, slicePtr.tp, FALSE))
         ELSE SetErrorf(m, "function Retrieve expecting pointer to slice, got pointer to "
                             \o slicePtr.elem)
    ELSE SetErrorf(m, "function Retrieve expecting pointer to slice, got " \o slicePtr.kind)

\* DbType.Retrieve; m.rl is the slice slicePtr points to
Retrieve(m, slicePtr, tailStr) ==
    IF m.err # Nil THEN m
    ELSE IF slicePtr.kind = "ptr"
    THEN IF slicePtr.elem = "slice"
         THEN LET set(l) == IF l.m.err = Nil THEN [l.m EXCEPT !.rl = l.sliceVl] ELSE l.m
                  loop(q) == IF q.err = Nil THEN set(RetrieveLoop(q, q.rl)) ELSE q
                  query(d) ==
                    IF d.err = Nil
                    THEN loop(DbQuery(d, "SELECT " \o d.dsc.selNameStr \o " FROM "
                                           \o d.dsc.tblStr \o prePad(tailStr) \o ";"))
                    ELSE d
              IN query(dscFromType(m, slicePtr.tp, FALSE))
         ELSE SetErrorf(m, "function Retrieve expecting pointer to slice, got pointer to "
                             \o slicePtr.elem)
    ELSE SetErrorf(m, "function Retrieve expecting pointer to slice, got " \o slicePtr.kind)

\* DbType.SetError
DbSetError(m, err) ==
    IF m.err = Nil /\ err # Nil THEN [m EXCEPT !.err = err] ELSE m

\* DbType.ClearError
DbClearError(m) == [m EXCEPT !.err = Nil]

----------------------------------------------------------------------------
(* DscType: the descriptor a WrapType carries, its command texts and its   *)
(* argument checks.                                                        *)

\* the character at position i of str
At(str, i) == SubSeq(str, i, i)

\* the classes \d and \s of the characters
IsDigit(c) == c \in {"0", "1", "2", "3", "4", "5", "6", "7", "8", "9"}

IsSpace(c) == c = " "

\* the byte of a character, by which Go compares strings
Code(c) ==
    CASE c = " " -> 32 [] c = "*" -> 42 [] c = "," -> 44
      [] c = "0" -> 48 [] c = "1" -> 49 [] c = "2" -> 50 [] c = "3" -> 51 [] c = "4" -> 52
      [] c = "5" -> 53 [] c = "6" -> 54 [] c = "7" -> 55 [] c = "8" -> 56 [] c = "9" -> 57
      [] c = "a" -> 97 [] c = "b" -> 98 [] c = "c" -> 99

\* a < b for strings
RECURSIVE StrLess(_, _)
StrLess(a, b) ==
    IF b = "" THEN FALSE
    ELSE IF a = "" THEN TRUE
    ELSE IF At(a, 1) = At(b, 1) THEN StrLess(SubSeq(a, 2, Len(a)), SubSeq(b, 2, Len(b)))
    ELSE Code(At(a, 1)) < Code(At(b, 1))

\* strings.Split(str, ",")
RECURSIVE Split(_)
Split(str) ==
    IF \E i \in 1..Len(str) : At(str, i) = ","
    THEN LET first(i) == At(str, i) = "," /\ \A h \in 1..(i - 1) : At(str, h) # ","
             cut(i) == <<SubSeq(str, 1, i - 1)>> \o Split(SubSeq(str, i + 1, Len(str)))
         IN cut(CHOOSE i \in 1..Len(str) : first(i))
    ELSE <<str>>

\* the ways in which ^\s*(\D{1,})(\S{1,})\s*$ matches str: white space up to
\* i, the first group up to j, the second up to k, white space to the end
IdxMatches(str) ==
    {m \in (0..Len(str)) \X (1..Len(str)) \X (1..Len(str)) :
        /\ m[1] < m[2] /\ m[2] < m[3]
        /\ \A h \in 1..m[1] : IsSpace(At(str, h))
        /\ \A h \in (m[1] + 1)..m[2] : ~IsDigit(At(str, h))
        /\ \A h \in (m[2] + 1)..m[3] : ~IsSpace(At(str, h))
        /\ \A h \in (m[3] + 1)..Len(str) : IsSpace(At(str, h))}

\* glIdxRe.FindStringSubmatch(str): no match, or the two groups of the match
\* in which each repetition, from the left, is as long as it can be
glIdxRe(str) ==
    IF IdxMatches(str) = {} THEN <<>>
    ELSE LET before(m, n) ==
               \/ m[1] > n[1]
               \/ m[1] = n[1] /\ m[2] > n[2]
               \/ m[1] = n[1] /\ m[2] = n[2] /\ m[3] >= n[3]
             groups(m) == <<str, SubSeq(str, m[1] + 1, m[2]), SubSeq(str, m[2] + 1, m[3])>>
         IN groups(CHOOSE m \in IdxMatches(str) : \A n \in IdxMatches(str) : before(m, n))

\* the db_index tags of one segment that the record types here carry and
\* glIdxRe matches, with the group and the name it finds
IdxTags ==
    [x \in {t \in {"a1", "a2", "a10", "b1", "*"} : glIdxRe(t) # <<>>} |->
       [sortStr |-> glIdxRe(x)[2], nameStr |-> glIdxRe(x)[3]]]

\* idxListType.Less
Less(x, y) == StrLess(x.nameStr, y.nameStr)

\* sort.Sort of an idxListType; for lists this short it is an insertion sort,
\* which moves an element to the left while it is less than its neighbour
RECURSIVE InsertSorted(_, _)
InsertSorted(list, x) ==
    IF list = <<>> THEN <<x>>
    ELSE IF Less(x, list[Len(list)])
    THEN Append(InsertSorted(SubSeq(list, 1, Len(list) - 1), x), list[Len(list)])
    ELSE Append(list, x)

RECURSIVE Sort(_)
Sort(list) ==
    IF list = <<>> THEN <<>>
    ELSE InsertSorted(Sort(SubSeq(list, 1, Len(list) - 1)), list[Len(list)])

\* the loop of processIndex over the segments of the tag
RECURSIVE processSegs(_, _, _)
processSegs(segList, fldStr, out) ==
    IF segList = <<>> THEN out
    ELSE IF out.err = Nil
    THEN LET add(pairList) ==
               IF pairList # <<>>
               THEN [out EXCEPT
                       !.idxMap = (pairList[2] :>
                                     Append(IF pairList[2] \in DOMAIN out.idxMap
                                            THEN out.idxMap[pairList[2]] ELSE <<>>,
                                            [nameStr |-> pairList[3], fldStr |-> fldStr]))
                                  @@ out.idxMap]
               ELSE [out EXCEPT !.err = "malformed index tag: " \o Head(segList)]
         IN processSegs(Tail(segList), fldStr, add(glIdxRe(Head(segList))))
    ELSE processSegs(Tail(segList), fldStr, out)

\* processIndex
processIndex(tagStr, fldStr, idxMap) ==
    IF Len(tagStr) > 0
    THEN processSegs(Split(tagStr), fldStr, [idxMap |-> idxMap, err |-> Nil])
    ELSE [idxMap |-> idxMap, err |-> Nil]

DscZero ==
    [tblStr |-> "", idPresent |-> FALSE, idSf |-> NoField, recTp |-> "",
     nameMap |-> [x \in {} |-> NoField],
     nameTypeStr |-> "", idxMap |-> [x \in {} |-> <<>>],
     insNameStr |-> "", nameList |-> <<>>, qmStr |-> "", insSfList |-> <<>>,
     selNameStr |-> "", selSfList |-> <<>>, typeStrList |-> <<>>]

\* one round of the field loop of describe as it would be if a further
\* db_table tag were accepted when it names the table already set
describeField_same(L, sf) ==
    IF L.err # Nil THEN L
    ELSE
    LET managed(sqlStr) ==
          IF sf.Type \in DOMAIN typeMap
          THEN LET index(idx) ==
                     IF idx.err = Nil
                     THEN [L EXCEPT
                             !.dsc.nameMap = (sqlStr :> sf) @@ @,
                             !.createList = Append(@, sqlStr \o " " \o typeMap[sf.Type]),
                             !.dsc.idxMap = idx.idxMap,
                             !.dsc.insSfList = Append(@, sf),
                             !.dsc.nameList = Append(@, sqlStr),
                             !.qmList = Append(@, "?"),
                             !.dsc.typeStrList = Append(@, typeMap[sf.Type]),
                             !.selList = Append(@, sqlStr),
                             !.dsc.selSfList = Append(@, sf)]
                     ELSE [L EXCEPT
                             !.dsc.nameMap = (sqlStr :> sf) @@ @,
                             !.createList = Append(@, sqlStr \o " " \o typeMap[sf.Type]),
                             !.err = idx.err]
               IN index(processIndex(sf.db_index, sf.Name, L.dsc.idxMap))
          ELSE [L EXCEPT !.err = "database does not support fields of type " \o sf.Type]
        primary ==
          IF Len(sf.db_primary) > 0
          THEN IF ~L.dsc.idPresent
               THEN IF sf.Type = "int64"
                    THEN [L EXCEPT
                            !.selList = Append(@, "rowid"),
                            !.dsc.selSfList = Append(@, sf),
                            !.dsc.typeStrList = Append(@, "int64"),
                            !.dsc.idSf = sf,
                            !.dsc.idPresent = TRUE]
                    ELSE [L EXCEPT !.err = "expecting int64 for id, got " \o Kind(sf.Type)]
               ELSE [L EXCEPT !.err = "multiple occurrence of \"db_primary\" tag"]
          ELSE L
        table(L1) ==
          IF L1.err = Nil /\ Len(sf.db_table) > 0
          THEN IF Len(L1.dsc.tblStr) = 0
               THEN [L1 EXCEPT !.dsc.tblStr = sf.db_table]
               ELSE IF L1.dsc.tblStr = sf.db_table THEN L1
               ELSE [L1 EXCEPT !.err = "multiple occurrence of \"db_table\" tag"]
          ELSE L1
    IN table(IF Len(sf.db) > 0
             THEN managed(IF sf.db = "*" THEN sf.Name ELSE sf.db)
             ELSE primary)

\* one round of the field loop of describe; L holds the locals
describeField(L, sf) ==
    IF L.err # Nil THEN L
    ELSE
    LET managed(sqlStr) ==
          IF sf.Type \in DOMAIN typeMap
          THEN LET index(idx) ==
                     IF idx.err = Nil
                     THEN [L EXCEPT
                             !.dsc.nameMap = (sqlStr :> sf) @@ @,
                             !.createList = Append(@, sqlStr \o " " \o typeMap[sf.Type]),
                             !.dsc.idxMap = idx.idxMap,
                             !.dsc.insSfList = Append(@, sf),
                             !.dsc.nameList = Append(@, sqlStr),
                             !.qmList = Append(@, "?"),
                             !.dsc.typeStrList = Append(@, typeMap[sf.Type]),
                             !.selList = Append(@, sqlStr),
                             !.dsc.selSfList = Append(@, sf)]
                     ELSE [L EXCEPT
                             !.dsc.nameMap = (sqlStr :> sf) @@ @,
                             !.createList = Append(@, sqlStr \o " " \o typeMap[sf.Type]),
                             !.err = idx.err]
               IN index(processIndex(sf.db_index, sf.Name, L.dsc.idxMap))
          ELSE [L EXCEPT !.err = "database does not support fields of type " \o sf.Type]
        primary ==
          IF Len(sf.db_primary) > 0
          THEN IF ~L.dsc.idPresent
               THEN IF sf.Type = "int64"
                    THEN [L EXCEPT
                            !.selList = Append(@, "rowid"),
                            !.dsc.selSfList = Append(@, sf),
                            !.dsc.typeStrList = Append(@, "int64"),
                            !.dsc.idSf = sf,
                            !.dsc.idPresent = TRUE]
                    ELSE [L EXCEPT !.err = "expecting int64 for id, got " \o Kind(sf.Type)]
               ELSE [L EXCEPT !.err = "multiple occurrence of \"db_primary\" tag"]
          ELSE L
        table(L1) ==
          IF L1.err = Nil /\ Len(sf.db_table) > 0
          THEN IF Len(L1.dsc.tblStr) = 0
               THEN [L1 EXCEPT !.dsc.tblStr = sf.db_table]
               ELSE [L1 EXCEPT !.err = "multiple occurrence of \"db_table\" tag"]
          ELSE L1
    IN table(IF Len(sf.db) > 0
             THEN managed(IF sf.db = "*" THEN sf.Name ELSE sf.db)
             ELSE primary)

RECURSIVE describeFields(_, _)
describeFields(L, sfList) ==
    IF sfList = <<>> THEN L
    ELSE describeFields(describeField(L, Head(sfList)), Tail(sfList))

\* describe as it would be if it looked for the table name before it looked
\* for managed columns
describeStruct_tablefirst(recTp, sfList) ==
    LET finish(L) ==
          IF L.err # Nil THEN [dsc |-> L.dsc, err |-> L.err]
          ELSE IF Len(L.dsc.tblStr) = 0
          THEN [dsc |-> L.dsc, err |-> "missing \"db_table\" tag"]
          ELSE IF Len(L.dsc.insSfList) = 0
          THEN [dsc |-> L.dsc,
                err |-> "at least one exported structure field must have \"db\" tag"]
          ELSE [dsc |-> [L.dsc EXCEPT
                           !.qmStr = Join(L.qmList, ", "),
                           !.insNameStr = Join(L.dsc.nameList, ", "),
                           !.nameTypeStr = Join(L.createList, ", "),
                           !.idxMap = [k \in DOMAIN @ |-> Sort(@[k])],
                           !.selNameStr = Join(L.selList, ", ")],
                err |-> Nil]
    IN finish(describeFields([err |-> Nil, dsc |-> [DscZero EXCEPT !.recTp = recTp],
                              selList |-> <<>>, qmList |-> <<>>, createList |-> <<>>],
                             sfList))

\* describe for the structure type recTp with fields sfList
describeStruct(recTp, sfList) ==
    LET finish(L) ==
          IF L.err # Nil THEN [dsc |-> L.dsc, err |-> L.err]
          ELSE IF Len(L.dsc.insSfList) = 0
          THEN [dsc |-> L.dsc,
                err |-> "at least one exported structure field must have \"db\" tag"]
          ELSE IF Len(L.dsc.tblStr) = 0
          THEN [dsc |-> L.dsc, err |-> "missing \"db_table\" tag"]
          ELSE [dsc |-> [L.dsc EXCEPT
                           !.qmStr = Join(L.qmList, ", "),
                           !.insNameStr = Join(L.dsc.nameList, ", "),
                           !.nameTypeStr = Join(L.createList, ", "),
                           !.idxMap = [k \in DOMAIN @ |-> Sort(@[k])],
                           !.selNameStr = Join(L.selList, ", ")],
                err |-> Nil]
    IN finish(describeFields([err |-> Nil, dsc |-> [DscZero EXCEPT !.recTp = recTp],
                              selList |-> <<>>, qmList |-> <<>>, createList |-> <<>>],
                             sfList))

\* describe
describe(recTp) ==
    IF IsStruct(recTp)
    THEN describeStruct(recTp, StructTypes[recTp])
    ELSE [dsc |-> DscZero,
          err |-> "specified address must be of structure with one or more fields that have a \"db\" tag"]

\* the descriptor of recType with the index tag of field A naming group a
glRecDsc ==
    [tblStr |-> "rec", idPresent |-> TRUE,
     idSf |-> Field("ID", "int64", "", "*", "rec", ""),
     recTp |-> "recType",
     nameMap |-> [x \in {"A"} |-> Field("A", "int64", "*", "", "", "a1")],
     nameTypeStr |-> "A integer",
     idxMap |-> [x \in {"a"} |-> <<[nameStr |-> "1", fldStr |-> "A"]>>],
     insNameStr |-> "A", nameList |-> <<"A">>, qmStr |-> "?",
     insSfList |-> <<Field("A", "int64", "*", "", "", "a1")>>,
     selNameStr |-> "rowid, A",
     selSfList |-> <<Field("ID", "int64", "", "*", "rec", ""),
                     Field("A", "int64", "*", "", "", "a1")>>,
     typeStrList |-> <<"int64", "integer">>]

\* the orders in which a range over a map with key set S can visit the keys
Orders(S) ==
    {o \in [1..Cardinality(S) -> S] : \A i, j \in 1..Cardinality(S) : o[i] = o[j] => i = j}

\* DscType.SelectStr
SelectStr(dsc, tailStr) ==
    "SELECT " \o dsc.selNameStr \o " FROM " \o dsc.tblStr \o prePad(tailStr) \o ";"

\* DscType.CreateStr; order is the order in which the range visits idxMap
CreateStr(dsc, order) ==
    [createStr |-> "CREATE TABLE " \o dsc.tblStr \o " (" \o dsc.nameTypeStr \o ");",
     idxStrList |-> [i \in 1..Len(order) |->
        "CREATE INDEX " \o dsc.tblStr \o "_" \o order[i] \o " ON " \o dsc.tblStr \o " ("
          \o Join([j \in 1..Len(dsc.idxMap[order[i]]) |-> dsc.idxMap[order[i]][j].fldStr], ", ")
          \o ")"]]

\* DscType.updateNames
updateNames(dsc, fldNames) ==
    IF Len(fldNames) = 0 THEN dsc.nameList
    ELSE IF fldNames[1] = "*" THEN dsc.nameList
    ELSE fldNames

\* DscType.UpdateStr
UpdateStr(dsc, fldNames) ==
    LET names == updateNames(dsc, fldNames) IN
    "UPDATE " \o dsc.tblStr \o " SET "
      \o Join([i \in 1..Len(names) |-> names[i] \o " = ?"], ", ") \o " WHERE rowid = ?;"

\* DscType.InsertStr
InsertStr(dsc) ==
    "INSERT INTO " \o dsc.tblStr \o " (" \o dsc.insNameStr \o ") VALUES (" \o dsc.qmStr \o ");"

\* DscType.InsertOrReplaceStr
InsertOrReplaceStr(dsc) ==
    "INSERT OR REPLACE INTO " \o dsc.tblStr \o " (" \o dsc.insNameStr \o ") VALUES ("
      \o dsc.qmStr \o ");"

\* DscType.TruncateStr
TruncateStr(dsc) == "DELETE FROM " \o dsc.tblStr \o ";"

\* the error DscType.SelectArg returns for recPtr
SelectArg_noptr(dsc, recPtr) ==
    IF recPtr.tp = dsc.recTp THEN Nil
    ELSE "passed in record for select does not match descriptor"

SelectArg(dsc, recPtr) ==
    IF recPtr.kind = "ptr"
    THEN IF recPtr.tp = dsc.recTp THEN Nil
         ELSE "passed in record for select does not match descriptor"
    ELSE "passed-in value must be a structure pointer"

\* the error DscType.InsertArg returns for rec
InsertArg(dsc, rec) ==
    IF rec.tp = dsc.recTp THEN Nil
    ELSE "value passed into insert must be a structure (or pointer to a structure)"

SelectArgList_ins(dsc, recPtr) == [i \in 1..Len(dsc.insSfList) |-> dsc.insSfList[i].Name]

\* the argument list DscType.SelectArg returns for recPtr: the addresses of
\* the fields of the record recPtr points to, each written as the field's name
SelectArgList(dsc, recPtr) == [i \in 1..Len(dsc.selSfList) |-> dsc.selSfList[i].Name]

InsertArgList_sel(dsc, rec) == [i \in 1..Len(dsc.selSfList) |-> rec.val[dsc.selSfList[i].Name]]

\* the argument list DscType.InsertArg returns for rec
InsertArgList(dsc, rec) == [i \in 1..Len(dsc.insSfList) |-> rec.val[dsc.insSfList[i].Name]]

\* the argument list DscType.UpdateArg returns for rec and fldNames
UpdateArgList(dsc, rec, fldNames) ==
    [i \in 1..Len(updateNames(dsc, fldNames)) |->
       rec.val[dsc.nameMap[updateNames(dsc, fldNames)[i]].Name]]
      \o <<rec.val[dsc.idSf.Name]>>

\* the error DscType.UpdateArg returns for rec and fldNames
UpdateArg(dsc, rec, fldNames) ==
    IF dsc.idPresent
    THEN IF rec.tp = dsc.recTp
         THEN IF \A i \in 1..Len(updateNames(dsc, fldNames)) :
                    updateNames(dsc, fldNames)[i] \in DOMAIN dsc.nameMap
              THEN Nil
              ELSE "field name not in structure"
         ELSE "value passed into update must be a structure (or pointer to a structure)"
    ELSE "update requires structure with primary ID"

----------------------------------------------------------------------------
(* WrapType (wrap.go).  In m, tx and err are the fields of the wrapper's   *)
(* shareType, and st, rows, args, res the wrapper's own.                   *)

\* DscType.WrapJoin as it would be if it allocated a shareType of its own
WrapJoin_own(masterShare) == CHOOSE sh \in Shares : sh # masterShare

\* DscType.WrapJoin: the shareType the new wrapper points to
WrapJoin(masterShare) == masterShare

\* WrapType.TransactionBegin tolerating an open transaction as DbType's does
TransactionBegin_silent(m) ==
    IF m.err = Nil
    THEN IF m.tx = NoTx
         THEN LET b == Begin(m) IN [b EXCEPT !.tx = b.vTx, !.err = b.e]
         ELSE m
    ELSE m

\* WrapType.TransactionBegin
TransactionBegin(m) ==
    IF m.err = Nil
    THEN IF m.tx = NoTx
         THEN LET b == Begin(m) IN [b EXCEPT !.tx = b.vTx, !.err = b.e]
         ELSE [m EXCEPT !.err = "nested transactions not supported"]
    ELSE m

\* WrapType.transactionEnd keeping its reference to the transaction
transactionEnd_held(m, commit) ==
    IF m.tx # NoTx
    THEN IF commit THEN Commit(m, m.tx) ELSE Rollback(m, m.tx)
    ELSE IF m.err = Nil
    THEN [m EXCEPT !.err = "no transaction to end"]
    ELSE m

\* WrapType.transactionEnd
transactionEnd(m, commit) ==
    IF m.tx # NoTx
    THEN [(IF commit THEN Commit(m, m.tx) ELSE Rollback(m, m.tx)) EXCEPT !.tx = NoTx]
    ELSE IF m.err = Nil
    THEN [m EXCEPT !.err = "no transaction to end"]
    ELSE m

\* WrapType.TransactionEnd committing whatever has happened
TransactionEnd_commit(m) == transactionEnd(m, TRUE)

\* WrapType.TransactionEnd
TransactionEnd(m) == transactionEnd(m, m.err = Nil)

\* WrapType.TransactionCommit
TransactionCommit(m) == transactionEnd(m, TRUE)

\* WrapType.TransactionRollback
TransactionRollback(m) == transactionEnd(m, FALSE)

\* WrapType.InsertClear
InsertClear(m) == [m EXCEPT !.st = NoStmt]

\* WrapType.insertOrReplace as it would be without the call of idFnc
insertOrReplace_noid(m, dsc, recPtr, replace) ==
    IF m.err = Nil
    THEN LET set(q) == [q EXCEPT !.st = q.vStmt, !.err = q.e]
             done(x) ==
               [x EXCEPT !.res = x.vRes, !.err = x.e,
                         !.rl = IF x.e = Nil /\ dsc.idPresent /\ recPtr.kind = "ptr"
                                THEN <<recPtr.val>>
                                ELSE @]
             exec(p) ==
               IF p.err = Nil /\ p.st # NoStmt
               THEN IF InsertArg(dsc, recPtr) = Nil
                    THEN done(StmtExec(p, p.st, valueInterfaceList(recPtr.val, dsc.insSfList)))
                    ELSE [p EXCEPT !.err = InsertArg(dsc, recPtr)]
               ELSE p
         IN exec(IF m.st = NoStmt
                 THEN set(Prepare(m, IF replace THEN InsertOrReplaceStr(dsc)
                                     ELSE InsertStr(dsc), m.tx))
                 ELSE m)
    ELSE m

\* WrapType.insertOrReplace
insertOrReplace(m, dsc, recPtr, replace) ==
    IF m.err = Nil
    THEN LET set(q) == [q EXCEPT !.st = q.vStmt, !.err = q.e]
             done(x) ==
               [x EXCEPT !.res = x.vRes, !.err = x.e,
                         !.rl = IF x.e = Nil /\ dsc.idPresent /\ recPtr.kind = "ptr"
                                THEN <<[recPtr.val EXCEPT ![dsc.idSf.Name] = x.vRes.id]>>
                                ELSE @]
             exec(p) ==
               IF p.err = Nil /\ p.st # NoStmt
               THEN IF InsertArg(dsc, recPtr) = Nil
                    THEN done(StmtExec(p, p.st, valueInterfaceList(recPtr.val, dsc.insSfList)))
                    ELSE [p EXCEPT !.err = InsertArg(dsc, recPtr)]
               ELSE p
         IN exec(IF m.st = NoStmt
                 THEN set(Prepare(m, IF replace THEN InsertOrReplaceStr(dsc)
                                     ELSE InsertStr(dsc), m.tx))
                 ELSE m)
    ELSE m

\* WrapType.Insert
WrapInsert(m, dsc, recPtr) == insertOrReplace(m, dsc, recPtr, FALSE)

\* WrapType.InsertOrReplace
InsertOrReplace(m, dsc, recPtr) == insertOrReplace(m, dsc, recPtr, TRUE)

\* WrapType.Update; id is the value of the record's primary-key field
WrapUpdate(m, dsc, rec, fldNames) ==
    IF m.err = Nil
    THEN LET done(x) == [x EXCEPT !.res = x.vRes, !.err = x.e]
             exec(p) ==
               IF p.e = Nil
               THEN IF UpdateArg(dsc, rec, fldNames) = Nil
                    THEN done(StmtExec([p EXCEPT !.err = p.e], p.vStmt,
                                       UpdateArgList(dsc, rec, fldNames)))
                    ELSE [p EXCEPT !.err = UpdateArg(dsc, rec, fldNames)]
               ELSE [p EXCEPT !.err = p.e]
         IN exec(Prepare(m, UpdateStr(dsc, fldNames), m.tx))
    ELSE m

RECURSIVE CreateEach(_, _)
\* for _, cmdStr = range idxList { if errVal == nil { _, errVal = Exec(cmdStr) } }
CreateEach(m, idxList) ==
    IF idxList = <<>> THEN m
    ELSE IF m.err = Nil
    THEN LET set(x) == [x EXCEPT !.err = x.e]
         IN CreateEach(set(Exec(m, Head(idxList), <<>>, m.tx)), Tail(idxList))
    ELSE CreateEach(m, Tail(idxList))

\* WrapType.Create
Create(m, dsc, order) ==
    IF m.err = Nil
    THEN LET set(x) == [x EXCEPT !.err = x.e]
             create(c) == CreateEach(set(Exec(m, c.createStr, <<>>, m.tx)), c.idxStrList)
         IN create(CreateStr(dsc, order))
    ELSE m

\* WrapType.Delete
WrapDelete(m, dsc, tailStr) ==
    IF m.err = Nil
    THEN LET done(x) == [x EXCEPT !.res = x.vRes, !.err = x.e]
         IN done(Exec(m, "DELETE FROM " \o dsc.tblStr \o prePad(tailStr) \o ";", <<>>, NoTx))
    ELSE m

\* WrapType.QueryRow
QueryRow(m, dsc, recPtr, tailStr) ==
    IF m.err = Nil
    THEN IF SelectArg(dsc, recPtr) = Nil
         THEN LET set(x) ==
                    [x EXCEPT !.err = x.e,
                              !.rl = IF x.e = Nil
                                     THEN <<scanInto(recPtr.val, dsc.selSfList,
                                                     Head(x.vRows.data))>>
                                     ELSE @]
                  scan(q) ==
                    IF q.e # Nil THEN [q EXCEPT !.err = q.e]
                    ELSE IF q.vRows.data = <<>> THEN [q EXCEPT !.err = ErrStmt]
                    ELSE set(Scan(q))
              IN scan(Query(m, SelectStr(dsc, tailStr), m.tx))
         ELSE [m EXCEPT !.err = SelectArg(dsc, recPtr)]
    ELSE m

\* WrapType.Query
WrapQuery(m, dsc, recPtr, tailStr) ==
    IF m.err = Nil
    THEN IF SelectArg(dsc, recPtr) = Nil
         THEN LET set(q) == [q EXCEPT !.args = TRUE, !.rows = q.vRows, !.err = q.e]
              IN set(Query(m, SelectStr(dsc, tailStr), m.tx))
         ELSE [m EXCEPT !.args = FALSE, !.err = SelectArg(dsc, recPtr)]
    ELSE m

\* WrapType.Next as it would be if it returned true for every row the cursor
\* delivers, scanned or not
Next_unscanned(m, dsc) ==
    IF m.err = Nil /\ m.args /\ m.rows # NoRows
    THEN LET set(sc) ==
               [sc EXCEPT !.rows = sc.vRows, !.err = sc.e, !.more = TRUE,
                          !.rl = IF sc.e = Nil
                                 THEN <<scanInto(ZeroRec(dsc.recTp), dsc.selSfList, sc.row)>>
                                 ELSE @]
             scan(n) ==
               IF n.more
               THEN set(Scan(n))
               ELSE [n EXCEPT !.err = n.e, !.args = FALSE, !.rows = NoRows, !.more = FALSE]
         IN scan(RowsNext([m EXCEPT !.vRows = m.rows]))
    ELSE [m EXCEPT !.more = FALSE]

\* WrapType.Next: m.more is the value returned
\* (dsc is the wrapper's descriptor, whose fields sel.args points to)
Next_(m, dsc) ==
    IF m.err = Nil /\ m.args /\ m.rows # NoRows
    THEN LET set(sc) ==
               [sc EXCEPT !.rows = sc.vRows, !.err = sc.e, !.more = (sc.e = Nil),
                          !.rl = IF sc.e = Nil
                                 THEN <<scanInto(ZeroRec(dsc.recTp), dsc.selSfList, sc.row)>>
                                 ELSE @]
             scan(n) ==
               IF n.more
               THEN set(Scan(n))
               ELSE [n EXCEPT !.err = n.e, !.args = FALSE, !.rows = NoRows, !.more = FALSE]
         IN scan(RowsNext([m EXCEPT !.vRows = m.rows]))
    ELSE [m EXCEPT !.more = FALSE]

\* WrapType.ClearError
WrapClearError(m) == [m EXCEPT !.err = Nil]

\* WrapType.SetError
WrapSetError(m, err) == IF err # Nil THEN [m EXCEPT !.err = err] ELSE m

\* WrapType.SetErrorf
WrapSetErrorf(m, msg) == IF m.err = Nil THEN [m EXCEPT !.err = msg] ELSE m

----------------------------------------------------------------------------
(* State *)

\* the sets of engine calls that fail in an operation which makes n engine
\* calls when none fails: none, or up to MaxFail consecutive ones
FailSets(n) == {{}} \cup {S \in {k..j : k \in 1..n, j \in 1..n} : Cardinality(S) <= MaxFail}

Tails == {""}

FldNames == {<<"*">>, <<"A">>}

Slices ==
    {[kind |-> "slice", elem |-> "struct", tp |-> "recType", len |-> n] : n \in 0..MaxRecs}

SlicePtrs == {[kind |-> "ptr", elem |-> "slice", tp |-> "recType"]}

\* what a call returns; for Retrieve, prior is the destination slice as it was
\* passed and rl the slice as it is left; arg is the column list or the tail
\* the call was given
NoRet ==
    [res |-> NoResult, rows |-> NoRows, more |-> FALSE, rl |-> <<>>, prior |-> <<>>,
     arg |-> <<>>]

\* the goroutines, each before its call of dscFromType
Routines == {"g1", "g2"}

NoRoutines ==
    [g \in Routines |-> [pc |-> "idle", tp |-> "", dsc |-> dscZero, raced |-> FALSE]]

\* the destination slice when Retrieve is called: n records read earlier (of row 1)
Priors == {[i \in 1..n |-> [ZeroRec("recType") EXCEPT !.ID = 1]] : n \in 0..MaxLen}

\* the wrappers through which the application issues statements and queries;
\* the other joined wrapper takes part in transactions and error handling
StmtWrappers == {"w1"}

Peer(w) == CHOOSE v \in Wrappers : v # w

\* WrapType.Tx
Tx(w) == share[sharePtr[w]].tx

\* WrapType.Err
Err(w) == share[sharePtr[w]].errVal

\* the locals every operation starts with
Locals(F) ==
    [F |-> F, calls |-> <<>>, e |-> Nil, vTx |-> NoTx, vStmt |-> NoStmt,
     vRes |-> NoResult, vRows |-> NoRows, more |-> FALSE, row |-> 0, dsc |-> dscZero,
     open |-> eng.open, store |-> eng.store, work |-> eng.work, cap |-> eng.cap,
     rl |-> <<>>, panic |-> FALSE]

\* the machine of an operation on the DbType handle
DbM(F) ==
    Locals(F) @@
    [tx |-> db.tx, err |-> db.err, stmtMap |-> db.stmtMap, dscMap |-> db.dscMap]

\* the machine of an operation on wrapper w
WrapM(w, F) ==
    Locals(F) @@
    [tx |-> Tx(w), err |-> Err(w),
     st |-> wrap[w].st, rows |-> wrap[w].rows, args |-> wrap[w].args, res |-> wrap[w].res]

\* the state after the DbType operation op ended in machine m and returned r
DbDone(op, m, r) ==
    /\ api = "db"
    /\ db' = [tx |-> m.tx, err |-> m.err, stmtMap |-> m.stmtMap, dscMap |-> m.dscMap]
    /\ api' = IF m.panic THEN "panic" ELSE api
    /\ eng' = [open |-> m.open, store |-> m.store, work |-> m.work, cap |-> m.cap]
    /\ calls' = m.calls
    /\ ret' = r
    /\ last' = [op |-> op, who |-> "db"]
    /\ UNCHANGED <<share, sharePtr, wrap, gor>>

\* the fields of a wrapper whose insert statement is bound to a transaction
\* that has ended
Ended(x, open) == IF x.st.tx \in {NoTx, open} THEN x ELSE [x EXCEPT !.st.tx = DoneTx]

\* the state after operation op of wrapper w ended in machine m and returned r
WrapDone(op, w, m, r) ==
    /\ api = "wrap"
    /\ share' = [share EXCEPT ![sharePtr[w]] = [tx |-> m.tx, errVal |-> m.err]]
    /\ wrap' = [v \in Wrappers |->
                  Ended(IF v = w THEN [st |-> m.st, rows |-> m.rows, args |-> m.args,
                                       res |-> m.res]
                        ELSE wrap[v], m.open)]
    /\ eng' = [open |-> m.open, store |-> m.store, work |-> m.work, cap |-> m.cap]
    /\ calls' = m.calls
    /\ ret' = r
    /\ last' = [op |-> op, who |-> w]
    /\ UNCHANGED <<api, db, sharePtr, gor>>

Init ==
    /\ api \in {"db", "wrap"}
    /\ db = [tx |-> NoTx, err |-> Nil,
             stmtMap |-> [x \in {} |-> NoStmt], dscMap |-> [x \in {} |-> dscZero]]
    /\ share = [sh \in Shares |-> [tx |-> NoTx, errVal |-> Nil]]
    /\ sharePtr = [w \in Wrappers |-> IF w = "w1" THEN 1 ELSE WrapJoin(1)]
    /\ wrap = [w \in Wrappers |->
                 [st |-> NoStmt, rows |-> NoRows, args |-> FALSE, res |-> NoResult]]
    /\ eng = [open |-> NoTx, store |-> NoTable, work |-> NoTable, cap |-> MaxRows]
    /\ last = [op |-> "init", who |-> ""]
    /\ calls = <<>>
    /\ ret = NoRet
    /\ gor = NoRoutines

----------------------------------------------------------------------------
(* Actions: the calls the application makes on the DbType handle *)

DoDbExec ==
    \E cmdStr \in {"foo", "DELETE FROM rec;"} :
        LET run(F) == DbExec(DbM(F), cmdStr, <<>>)
        IN \E F \in FailSets(Len(run({}).calls)) :
               LET m == run(F) IN DbDone("Exec", m, [NoRet EXCEPT !.res = m.vRes])

DoDbQuery ==
    \E cmdStr \in {"foo", "SELECT rowid, A FROM rec;"} :
        LET run(F) == DbQuery(DbM(F), cmdStr)
        IN \E F \in FailSets(Len(run({}).calls)) :
               LET m == run(F) IN DbDone("Query", m, [NoRet EXCEPT !.rows = m.vRows])

DoTableCreate ==
    \E recPtr \in RecArgs :
        LET run(F) == TableCreate(DbM(F), recPtr)
        IN \E F \in FailSets(Len(run({}).calls)) :
               DbDone("TableCreate", run(F), NoRet)

DoDbInsert ==
    \E slice \in Slices :
        LET run(F) == DbInsert([DbM(F) EXCEPT !.rl = [i \in 1..slice.len |-> ZeroRec(slice.tp)]],
                               slice)
        IN \E F \in FailSets(Len(run({}).calls)) :
               DbDone("Insert", run(F), NoRet)

DoDbUpdate ==
    \E recPtr \in RecArgs, fldNames \in FldNames, id \in 1..MaxRows :
        LET run(F) == DbUpdate(DbM(F), [recPtr EXCEPT !.val.ID = id], fldNames)
        IN \E F \in FailSets(Len(run({}).calls)) :
               DbDone("Update", run(F), NoRet)

DoDbDelete ==
    \E recPtr \in RecArgs, tailStr \in Tails :
        LET run(F) == DbDelete(DbM(F), recPtr, tailStr)
        IN \E F \in FailSets(Len(run({}).calls)) :
               DbDone("Delete", run(F), NoRet)

DoTruncate ==
    \E recPtr \in RecArgs :
        LET run(F) == Truncate(DbM(F), recPtr)
        IN \E F \in FailSets(Len(run({}).calls)) :
               DbDone("Truncate", run(F), NoRet)

DoRetrieve ==
    \E slicePtr \in SlicePtrs, tailStr \in Tails, prior \in Priors :
        LET run(F) == Retrieve([DbM(F) EXCEPT !.rl = prior], slicePtr, tailStr)
        IN \E F \in FailSets(Len(run({}).calls)) :
               LET m == run(F)
               IN DbDone("Retrieve", m, [NoRet EXCEPT !.rl = m.rl, !.prior = prior])

DoTransactBegin ==
    LET run(F) == TransactBegin(DbM(F))
    IN \E F \in FailSets(Len(run({}).calls)) :
           DbDone("TransactBegin", run(F), NoRet)

DoTransactCommit ==
    LET run(F) == TransactCommit(DbM(F))
    IN \E F \in FailSets(Len(run({}).calls)) :
           DbDone("TransactCommit", run(F), NoRet)

DoTransactRollback ==
    LET run(F) == TransactRollback(DbM(F))
    IN \E F \in FailSets(Len(run({}).calls)) :
           DbDone("TransactRollback", run(F), NoRet)

DoDbSetError ==
    \E err \in AppErrors \cup {Nil} : DbDone("SetError", DbSetError(DbM({}), err), NoRet)

DoDbSetErrorf ==
    \E msg \in AppErrors : DbDone("SetErrorf", SetErrorf(DbM({}), msg), NoRet)

DoDbClearError ==
    DbDone("ClearError", DbClearError(DbM({})), NoRet)

----------------------------------------------------------------------------
(* Actions: the calls the application makes on the wrappers *)

DoTransactionBegin ==
    \E w \in Wrappers :
        LET run(F) == TransactionBegin(WrapM(w, F))
        IN \E F \in FailSets(Len(run({}).calls)) :
               WrapDone("TransactionBegin", w, run(F), NoRet)

DoTransactionEnd ==
    \E w \in Wrappers :
        LET run(F) == TransactionEnd(WrapM(w, F))
        IN \E F \in FailSets(Len(run({}).calls)) :
               WrapDone("TransactionEnd", w, run(F), NoRet)

DoTransactionCommit ==
    \E w \in Wrappers :
        LET run(F) == TransactionCommit(WrapM(w, F))
        IN \E F \in FailSets(Len(run({}).calls)) :
               WrapDone("TransactionCommit", w, run(F), NoRet)

DoTransactionRollback ==
    \E w \in Wrappers :
        LET run(F) == TransactionRollback(WrapM(w, F))
        IN \E F \in FailSets(Len(run({}).calls)) :
               WrapDone("TransactionRollback", w, run(F), NoRet)

DoInsertClear ==
    \E w \in StmtWrappers : WrapDone("InsertClear", w, InsertClear(WrapM(w, {})), NoRet)

DoWrapInsert ==
    \E w \in StmtWrappers, recPtr \in RecArgs :
        LET run(F) == WrapInsert(WrapM(w, F), glRecDsc, recPtr)
        IN \E F \in FailSets(Len(run({}).calls)) :
               WrapDone("Insert", w, run(F), NoRet)

DoInsertOrReplace ==
    \E w \in StmtWrappers, recPtr \in RecArgs :
        LET run(F) == InsertOrReplace(WrapM(w, F), glRecDsc, recPtr)
        IN \E F \in FailSets(Len(run({}).calls)) :
               WrapDone("InsertOrReplace", w, run(F), NoRet)

DoWrapUpdate ==
    \E w \in StmtWrappers, rec \in RecArgs, fldNames \in FldNames, id \in 1..MaxRows :
        LET run(F) == WrapUpdate(WrapM(w, F), glRecDsc, [rec EXCEPT !.val.ID = id], fldNames)
        IN \E F \in FailSets(Len(run({}).calls)) :
               WrapDone("Update", w, run(F), NoRet)

DoCreate ==
    \E w \in StmtWrappers, order \in Orders(DOMAIN glRecDsc.idxMap) :
        LET run(F) == Create(WrapM(w, F), glRecDsc, order)
        IN \E F \in FailSets(Len(run({}).calls)) :
               WrapDone("Create", w, run(F), NoRet)

DoWrapDelete ==
    \E w \in StmtWrappers, tailStr \in Tails :
        LET run(F) == WrapDelete(WrapM(w, F), glRecDsc, tailStr)
        IN \E F \in FailSets(Len(run({}).calls)) :
               WrapDone("Delete", w, run(F), NoRet)

DoQueryRow ==
    \E w \in StmtWrappers, recPtr \in RecArgs, tailStr \in Tails :
        LET run(F) == QueryRow(WrapM(w, F), glRecDsc, recPtr, tailStr)
        IN \E F \in FailSets(Len(run({}).calls)) :
               WrapDone("QueryRow", w, run(F), NoRet)

DoWrapQuery ==
    \E w \in StmtWrappers, recPtr \in RecArgs, tailStr \in Tails :
        LET run(F) == WrapQuery(WrapM(w, F), glRecDsc, recPtr, tailStr)
        IN \E F \in FailSets(Len(run({}).calls)) :
               WrapDone("Query", w, run(F), NoRet)

DoNext ==
    \E w \in StmtWrappers :
        LET run(F) == Next_(WrapM(w, F), glRecDsc)
        IN \E F \in FailSets(Len(run({}).calls)) :
               LET m == run(F) IN WrapDone("Next", w, m, [NoRet EXCEPT !.more = m.more])

DoWrapSetError ==
    \E w \in Wrappers, err \in AppErrors \cup {Nil} :
        WrapDone("SetError", w, WrapSetError(WrapM(w, {}), err), NoRet)

DoWrapSetErrorf ==
    \E w \in Wrappers, msg \in AppErrors :
        WrapDone("SetErrorf", w, WrapSetErrorf(WrapM(w, {}), msg), NoRet)

DoWrapClearError ==
    \E w \in Wrappers : WrapDone("ClearError", w, WrapClearError(WrapM(w, {})), NoRet)

Next ==
    \/ DoDbExec \/ DoDbQuery \/ DoTableCreate \/ DoDbInsert \/ DoDbUpdate
    \/ DoDbDelete \/ DoTruncate \/ DoRetrieve
    \/ DoTransactBegin \/ DoTransactCommit \/ DoTransactRollback
    \/ DoDbSetError \/ DoDbSetErrorf \/ DoDbClearError
    \/ DoTransactionBegin \/ DoTransactionEnd \/ DoTransactionCommit
    \/ DoTransactionRollback \/ DoInsertClear \/ DoWrapInsert \/ DoInsertOrReplace
    \/ DoWrapUpdate \/ DoCreate \/ DoWrapDelete \/ DoQueryRow \/ DoWrapQuery \/ DoNext
    \/ DoWrapSetError \/ DoWrapSetErrorf \/ DoWrapClearError

Spec == Init /\ [][Next]_vars

----------------------------------------------------------------------------
(* The data the operations move: one application works on the table of     *)
(* abType through one API, on an engine whose only failures are those of   *)
(* reading a cursor.                                                       *)

MaxData == 2        \* rows the table of abType holds at most

abDsc == describe("abType").dsc

abPtr(rec) == [kind |-> "ptr", elem |-> "struct", tp |-> "abType", val |-> rec]

abSlice(n) == [kind |-> "slice", elem |-> "struct", tp |-> "abType", len |-> n]

abSlicePtr == [kind |-> "ptr", elem |-> "slice", tp |-> "abType"]

\* the record the application inserts and the one it updates row id with
InsRec == [ID |-> 0, A |-> 1, B |-> 2]

UpdRec(id) == [ID |-> id, A |-> 3, B |-> 4]

\* the column lists given to Update: a proper subset of the columns, and a
\* name that is no column
DataFldNames == {<<"B">>, <<"X">>}

DataTails == {"", WhereId(1)}

IdTails == {WhereId(id) : id \in 1..MaxData}

\* the destination slice when Retrieve is called: n records from elsewhere
DataPriors == {[i \in 1..n |-> [ID |-> 9, A |-> 9, B |-> 9]] : n \in 0..MaxLen}

\* the sets of cursor reads that fail in an operation whose engine calls are
\* cs when none fails
ReadFails(cs) == {F \in FailSets(Len(cs)) : \A k \in F : cs[k].op \in {"next", "scan"}}

InitData ==
    /\ api \in {"db", "wrap"}
    /\ db = [tx |-> NoTx, err |-> Nil,
             stmtMap |-> [x \in {} |-> NoStmt], dscMap |-> [x \in {} |-> dscZero]]
    /\ share = [sh \in Shares |-> [tx |-> NoTx, errVal |-> Nil]]
    /\ sharePtr = [w \in Wrappers |-> IF w = "w1" THEN 1 ELSE WrapJoin(1)]
    /\ wrap = [w \in Wrappers |->
                 [st |-> NoStmt, rows |-> NoRows, args |-> FALSE, res |-> NoResult]]
    /\ eng = [open |-> NoTx, store |-> NoTable, work |-> NoTable, cap |-> MaxData]
    /\ last = [op |-> "init", who |-> ""]
    /\ calls = <<>>
    /\ ret = NoRet
    /\ gor = NoRoutines

DataTableCreate ==
    DbDone("TableCreate", TableCreate(DbM({}), abPtr(InsRec)), NoRet)

DataDbInsert ==
    \E n \in 1..MaxRecs :
        LET done(m) == DbDone("Insert", m, [NoRet EXCEPT !.rl = m.rl,
                                                          !.prior = [i \in 1..n |-> InsRec]])
        IN done(DbInsert([DbM({}) EXCEPT !.rl = [i \in 1..n |-> InsRec]], abSlice(n)))

DataDbUpdate ==
    \E fldNames \in DataFldNames, id \in 1..MaxData :
        DbDone("Update", DbUpdate(DbM({}), abPtr(UpdRec(id)), fldNames),
               [NoRet EXCEPT !.prior = <<UpdRec(id)>>, !.arg = fldNames])

DataDbDelete ==
    \E tailStr \in DataTails :
        DbDone("Delete", DbDelete(DbM({}), abPtr(InsRec), tailStr),
               [NoRet EXCEPT !.arg = <<tailStr>>])

\* (res is the result the engine gave for the statement)
DataTruncate ==
    LET done(m) == DbDone("Truncate", m, [NoRet EXCEPT !.res = m.vRes])
    IN done(Truncate(DbM({}), abPtr(InsRec)))

DataRetrieve ==
    \E tailStr \in DataTails, prior \in DataPriors :
        LET run(F) == Retrieve([DbM(F) EXCEPT !.rl = prior], abSlicePtr, tailStr)
            done(m) == DbDone("Retrieve", m, [NoRet EXCEPT !.rl = m.rl, !.prior = prior])
        IN \E F \in ReadFails(run({}).calls) : done(run(F))

DataDbClearError ==
    DbDone("ClearError", DbClearError(DbM({})), NoRet)

DataCreate ==
    \E w \in StmtWrappers, order \in Orders(DOMAIN abDsc.idxMap) :
        WrapDone("Create", w, Create(WrapM(w, {}), abDsc, order), NoRet)

DataWrapInsert ==
    \E w \in StmtWrappers :
        LET done(m) == WrapDone("Insert", w, m, [NoRet EXCEPT !.rl = m.rl, !.prior = <<InsRec>>])
        IN done(WrapInsert(WrapM(w, {}), abDsc, abPtr(InsRec)))

DataWrapUpdate ==
    \E w \in StmtWrappers, fldNames \in DataFldNames, id \in 1..MaxData :
        WrapDone("Update", w, WrapUpdate(WrapM(w, {}), abDsc, abPtr(UpdRec(id)), fldNames),
                 [NoRet EXCEPT !.prior = <<UpdRec(id)>>, !.arg = fldNames])

DataWrapDelete ==
    \E w \in StmtWrappers, tailStr \in DataTails :
        WrapDone("Delete", w, WrapDelete(WrapM(w, {}), abDsc, tailStr),
                 [NoRet EXCEPT !.arg = <<tailStr>>])

DataQueryRow ==
    \E w \in StmtWrappers, tailStr \in IdTails :
        LET done(m) == WrapDone("QueryRow", w, m, [NoRet EXCEPT !.rl = m.rl])
        IN done(QueryRow(WrapM(w, {}), abDsc, abPtr(ZeroRec("abType")), tailStr))

DataWrapQuery ==
    \E w \in StmtWrappers, tailStr \in {""} :
        WrapDone("Query", w, WrapQuery(WrapM(w, {}), abDsc, abPtr(ZeroRec("abType")), tailStr),
                 NoRet)

DataNext ==
    \E w \in StmtWrappers :
        LET run(F) == Next_(WrapM(w, F), abDsc)
            done(m) == WrapDone("Next", w, m, [NoRet EXCEPT !.more = m.more, !.rl = m.rl])
        IN \E F \in ReadFails(run({}).calls) : done(run(F))

DataWrapClearError ==
    \E w \in StmtWrappers : WrapDone("ClearError", w, WrapClearError(WrapM(w, {})), NoRet)

NextData ==
    \/ DataTableCreate \/ DataDbInsert \/ DataDbUpdate \/ DataDbDelete \/ DataTruncate
    \/ DataRetrieve \/ DataDbClearError
    \/ DataCreate \/ DataWrapInsert \/ DataWrapUpdate \/ DataWrapDelete \/ DataQueryRow
    \/ DataWrapQuery \/ DataNext \/ DataWrapClearError

SpecData == InitData /\ [][NextData]_vars

----------------------------------------------------------------------------
(* The descriptor: the application describes record types and asks a       *)
(* descriptor for the text and the arguments of an update.                 *)

MaxFields == 2      \* fields of a described structure type

FieldNames == <<"F1", "F2", "F3", "F4">>

\* the fields a structure type can have at position i: of a type the database
\* supports or not, with or without each of the tags db (naming the column
\* after the field or F1), db_primary, db_table
FieldsAt(i) ==
    {Field(FieldNames[i], type, dbTag, primary, table, "") :
        type \in {"int64", "func()"}, dbTag \in {"", "*", "F1"}, primary \in {"", "*"},
        table \in {"", "rec", "tb"}}

RECURSIVE FieldLists(_)
FieldLists(n) ==
    IF n = 0 THEN {<<>>}
    ELSE {Append(l, f) : l \in FieldLists(n - 1), f \in FieldsAt(n)}

\* the structure types of up to n fields described: their field lists
GenTypes(n) == UNION {FieldLists(k) : k \in 0..n}

\* the column lists for which UpdateStr and UpdateArg are called
StrFldNames == {<<>>, <<"*">>, <<"A">>, <<"B">>, <<"A", "B">>, <<"X">>, <<"A", "X">>}

\* the fields a record type can have at position i: an int64 primary key, or
\* an int64 column named after the field, without index or in group a (with
\* sequence number 1, 2 or 10) or in group b, or an int64 column that
\* has the primary-key tag too, or an int64 column called F1; the first
\* field has the table tag
RecFieldsAt(i) ==
    {Field(FieldNames[i], "int64", "", "*", IF i = 1 THEN "rec" ELSE "", ""),
     Field(FieldNames[i], "int64", "*", "*", IF i = 1 THEN "rec" ELSE "", ""),
     Field(FieldNames[i], "int64", "F1", "", IF i = 1 THEN "rec" ELSE "", "")}
      \cup {Field(FieldNames[i], "int64", "*", "", IF i = 1 THEN "rec" ELSE "", index) :
               index \in {"", "a1", "a2", "a10", "b1"}}

RECURSIVE RecFieldLists(_)
RecFieldLists(n) ==
    IF n = 0 THEN {<<>>}
    ELSE {Append(l, f) : l \in RecFieldLists(n - 1), f \in RecFieldsAt(n)}

\* the record types of up to n fields whose descriptors are used: those that
\* can be described
RecTypes(n) ==
    {sfList \in UNION {RecFieldLists(k) : k \in 1..n} :
        describeStruct("gen", sfList).err = Nil}

\* a record of the type with fields sfList whose fields hold distinct values,
\* and a pointer to it
RecOf(sfList) == [f \in {sfList[i].Name : i \in 1..Len(sfList)} |->
                    10 + CHOOSE i \in 1..Len(sfList) : sfList[i].Name = f]

RecPtr(sfList) == [kind |-> "ptr", elem |-> "struct", tp |-> "gen", val |-> RecOf(sfList)]

\* the column lists passed to UpdateStr and UpdateArg for these types
RecFldNames == {<<>>, <<"*">>, <<"F2">>, <<"F2", "F3">>, <<"F3", "F2">>, <<"X">>}

MaxTag == 4         \* characters of a db_index tag

\* the db_index tags of up to n characters: group names of a's, sequence
\* numbers of 1's, white space and commas in any arrangement
RECURSIVE TagStrs(_)
TagStrs(n) ==
    IF n = 0 THEN {""}
    ELSE TagStrs(n - 1)
           \cup {t \o c : t \in {x \in TagStrs(n - 1) : Len(x) = n - 1},
                           c \in {"a", "1", " ", ","}}

\* the structure type with one column, of db tag dbTag, that carries the
\* db_index tag tagStr
TagType(dbTag, tagStr) == << Field("F1", "int64", dbTag, "", "rec", tagStr) >>

\* what the application passes: the fields of a structure type, the name of
\* a type, a column list with the identifier of the record to update, the
\* fields of a record type of which it uses the descriptor, or the db_index
\* tag of a structure type
DscInputs(n) ==
    {[kind |-> "fields", sfList |-> sfList] : sfList \in GenTypes(n)}
      \cup {[kind |-> "rec", sfList |-> sfList] : sfList \in RecTypes(n + 1)}
      \cup {[kind |-> "type", recTp |-> recTp] : recTp \in TypeNames}
      \cup {[kind |-> "names", fldNames |-> fldNames, id |-> id] :
              fldNames \in StrFldNames, id \in 1..MaxData}
      \cup {[kind |-> "tag", dbTag |-> dbTag, tagStr |-> tagStr] :
               dbTag \in {"*", "c"}, tagStr \in TagStrs(MaxTag)}

InitDsc ==
    /\ api = "wrap"
    /\ db = [tx |-> NoTx, err |-> Nil,
             stmtMap |-> [x \in {} |-> NoStmt], dscMap |-> [x \in {} |-> dscZero]]
    /\ share = [sh \in Shares |-> [tx |-> NoTx, errVal |-> Nil]]
    /\ sharePtr = [w \in Wrappers |-> IF w = "w1" THEN 1 ELSE WrapJoin(1)]
    /\ wrap = [w \in Wrappers |->
                 [st |-> NoStmt, rows |-> NoRows, args |-> FALSE, res |-> NoResult]]
    /\ eng = [open |-> NoTx, store |-> NoTable, work |-> NoTable, cap |-> MaxData]
    /\ last \in {[op |-> "init", who |-> in] : in \in DscInputs(MaxFields)}
    /\ calls = <<>>
    /\ ret = NoRet
    /\ gor = NoRoutines

\* dbmap.Describe of a record whose structure type has the fields passed
DoDescribe ==
    /\ last.op = "init" /\ last.who.kind = "fields"
    /\ ret' = describeStruct("gen", last.who.sfList)
    /\ last' = [last EXCEPT !.op = "Describe"]
    /\ UNCHANGED <<api, db, share, sharePtr, wrap, eng, calls, gor>>

\* dbmap.Describe of a value of the named type
DoDescribeNamed ==
    /\ last.op = "init" /\ last.who.kind = "type"
    /\ ret' = describe(last.who.recTp)
    /\ last' = [last EXCEPT !.op = "Describe"]
    /\ UNCHANGED <<api, db, share, sharePtr, wrap, eng, calls, gor>>

\* the commands a handle asked the engine to prepare, in the order of
\* its calls
RECURSIVE Prepared(_)
Prepared(cl) ==
    IF cl = <<>> THEN <<>>
    ELSE (IF Head(cl).op = "prepare" THEN <<Head(cl).text>> ELSE <<>>) \o Prepared(Tail(cl))

\* DscType.UpdateStr and DscType.UpdateArg for the same column list, and
\* DbType.Update of the same record with that list (cmds are the commands
\* it prepared, dbErr the error of the handle when it returned)
DoUpdateStr ==
    /\ last.op = "init" /\ last.who.kind = "names"
    /\ LET err(rec, fldNames) ==
             [text |-> UpdateStr(abDsc, fldNames),
              err |-> UpdateArg(abDsc, rec, fldNames),
              args |-> IF UpdateArg(abDsc, rec, fldNames) = Nil
                       THEN UpdateArgList(abDsc, rec, fldNames) ELSE <<>>,
              cmds |-> Prepared(DbUpdate(DbM({}), rec, fldNames).calls),
              dbErr |-> DbUpdate(DbM({}), rec, fldNames).err]
       IN ret' = err(abPtr(UpdRec(last.who.id)), last.who.fldNames)
    /\ last' = [last EXCEPT !.op = "UpdateStr"]
    /\ UNCHANGED <<api, db, share, sharePtr, wrap, eng, calls, gor>>

\* the descriptor of the record type passed
RecDsc == describeStruct("gen", last.who.sfList).dsc

\* DscType.CreateStr, called twice on one descriptor
DoCreateStr ==
    /\ last.op = "init" /\ last.who.kind = "rec"
    /\ \E o1, o2 \in Orders(DOMAIN RecDsc.idxMap) :
          ret' = [dsc |-> RecDsc, first |-> CreateStr(RecDsc, o1),
                  second |-> CreateStr(RecDsc, o2)]
    /\ last' = [last EXCEPT !.op = "CreateStr"]
    /\ UNCHANGED <<api, db, share, sharePtr, wrap, eng, calls, gor>>

\* DscType.SelectStr and DscType.SelectArg for a record of the type
DoSelectStr ==
    /\ last.op = "init" /\ last.who.kind = "rec"
    /\ \E tailStr \in DataTails :
          ret' = [dsc |-> RecDsc, tailStr |-> tailStr, text |-> SelectStr(RecDsc, tailStr),
                  err |-> SelectArg(RecDsc, RecPtr(last.who.sfList)),
                  args |-> SelectArgList(RecDsc, RecPtr(last.who.sfList))]
    /\ last' = [last EXCEPT !.op = "SelectStr"]
    /\ UNCHANGED <<api, db, share, sharePtr, wrap, eng, calls, gor>>

\* DscType.InsertStr or InsertOrReplaceStr, and DscType.InsertArg for a
\* record of the type
DoInsertStr ==
    /\ last.op = "init" /\ last.who.kind = "rec"
    /\ \E replace \in BOOLEAN :
          ret' = [dsc |-> RecDsc, replace |-> replace,
                  text |-> IF replace THEN InsertOrReplaceStr(RecDsc) ELSE InsertStr(RecDsc),
                  err |-> InsertArg(RecDsc, RecPtr(last.who.sfList)),
                  args |-> InsertArgList(RecDsc, RecPtr(last.who.sfList))]
    /\ last' = [last EXCEPT !.op = "InsertStr"]
    /\ UNCHANGED <<api, db, share, sharePtr, wrap, eng, calls, gor>>

\* DscType.UpdateStr and DscType.UpdateArg for a record of the type and the
\* same column list
DoUpdateArg ==
    /\ last.op = "init" /\ last.who.kind = "rec"
    /\ \E fldNames \in RecFldNames :
          LET out(err) ==
                [dsc |-> RecDsc, fldNames |-> fldNames,
                 text |-> UpdateStr(RecDsc, fldNames), err |-> err,
                 args |-> IF err = Nil
                          THEN UpdateArgList(RecDsc, RecPtr(last.who.sfList), fldNames)
                          ELSE <<>>]
          IN ret' = out(UpdateArg(RecDsc, RecPtr(last.who.sfList), fldNames))
    /\ last' = [last EXCEPT !.op = "UpdateArg"]
    /\ UNCHANGED <<api, db, share, sharePtr, wrap, eng, calls, gor>>

\* dbmap.Describe of a value of the structure type whose column carries the
\* db_index tag passed
DoDescribeTag ==
    /\ last.op = "init" /\ last.who.kind = "tag"
    /\ LET d == describeStruct("gen", TagType(last.who.dbTag, last.who.tagStr))
       IN \E order \in Orders(DOMAIN d.dsc.idxMap) :
              ret' = [dsc |-> d.dsc, err |-> d.err, create |-> CreateStr(d.dsc, order)]
    /\ last' = [last EXCEPT !.op = "DescribeTag"]
    /\ UNCHANGED <<api, db, share, sharePtr, wrap, eng, calls, gor>>

NextDsc ==
    \/ DoDescribe \/ DoDescribeNamed \/ DoUpdateStr
    \/ DoCreateStr \/ DoSelectStr \/ DoInsertStr \/ DoUpdateArg
    \/ DoDescribeTag

SpecDsc == InitDsc /\ [][NextDsc]_vars

----------------------------------------------------------------------------
(* The descriptor cache of a DbType handle: the application runs operations *)
(* on records of several types, some of which cannot be described.          *)

\* the record pointers passed: one per structure type, and a pointer to an int
CachePtrs ==
    {[kind |-> "ptr", elem |-> "struct", tp |-> tp, val |-> ZeroRec(tp)] :
        tp \in DOMAIN StructTypes}
      \cup {[kind |-> "ptr", elem |-> "int", tp |-> "int", val |-> <<>>]}

InitCache ==
    /\ api = "db"
    /\ db = [tx |-> NoTx, err |-> Nil,
             stmtMap |-> [x \in {} |-> NoStmt], dscMap |-> [x \in {} |-> dscZero]]
    /\ share = [sh \in Shares |-> [tx |-> NoTx, errVal |-> Nil]]
    /\ sharePtr = [w \in Wrappers |-> IF w = "w1" THEN 1 ELSE WrapJoin(1)]
    /\ wrap = [w \in Wrappers |->
                 [st |-> NoStmt, rows |-> NoRows, args |-> FALSE, res |-> NoResult]]
    /\ eng = [open |-> NoTx, store |-> NoTable, work |-> NoTable, cap |-> MaxData]
    /\ last = [op |-> "init", who |-> ""]
    /\ calls = <<>>
    /\ ret = NoRet
    /\ gor = NoRoutines

\* (arg is the type of the record passed)
CacheTableCreate ==
    \E recPtr \in CachePtrs :
        DbDone("TableCreate", TableCreate(DbM({}), recPtr),
               [NoRet EXCEPT !.arg = <<recPtr.tp>>])

CacheTruncate ==
    \E recPtr \in CachePtrs :
        DbDone("Truncate", Truncate(DbM({}), recPtr), [NoRet EXCEPT !.arg = <<recPtr.tp>>])

CacheDbDelete ==
    \E recPtr \in CachePtrs :
        DbDone("Delete", DbDelete(DbM({}), recPtr, ""), [NoRet EXCEPT !.arg = <<recPtr.tp>>])

CacheDbUpdate ==
    \E recPtr \in CachePtrs :
        DbDone("Update", DbUpdate(DbM({}), recPtr, <<"*">>),
               [NoRet EXCEPT !.arg = <<recPtr.tp>>])

CacheDbClearError ==
    DbDone("ClearError", DbClearError(DbM({})), NoRet)

NextCache ==
    \/ CacheTableCreate \/ CacheTruncate \/ CacheDbDelete \/ CacheDbUpdate
    \/ CacheDbClearError

SpecCache == InitCache /\ [][NextCache]_vars

----------------------------------------------------------------------------
(* Goroutines that share one DbType handle and each call dscFromType once.  *)
(* The handle has no lock: a goroutine reads db.dscMap, builds on a miss    *)
(* and writes db.dscMap, and another goroutine can run between these steps  *)
(* and while a map access is under way.  A map access that overlaps a write *)
(* of another goroutine is a data race; what such an access yields is       *)
(* chosen among the outcomes of a Go build: the runtime stops the program   *)
(* (concurrent map writes), or the access goes through, or it reads or      *)
(* leaves an entry that is not a built descriptor.                          *)

\* the types the goroutines describe
BuildTypes == {"abType", "nType", "eType"}

\* dscFromType for type tp on a handle without error and with an empty cache
Built(tp) ==
    dscFromType([err |-> Nil, dscMap |-> [x \in {} |-> dscZero], dsc |-> dscZero], tp, FALSE)

\* an entry a racing map access reads or leaves
Torn == dscZero

\* gor with goroutine g at rec, and with the goroutines whose map access is
\* under way marked as raced when g's access conflicts with theirs
Overlap(g, rec, open) ==
    [h \in Routines |->
       IF h = g THEN [rec EXCEPT !.raced = \E k \in Routines \ {g} : gor[k].pc \in open]
       ELSE IF gor[h].pc \in open THEN [gor[h] EXCEPT !.raced = TRUE]
       ELSE gor[h]]

\* goroutine g calls dscFromType: with db.err set it returns at once, else it
\* starts to read db.dscMap
GoCall(g) ==
    /\ api = "db" /\ gor[g].pc = "idle"
    /\ \E tp \in BuildTypes :
          gor' = IF db.err # Nil
                 THEN [gor EXCEPT ![g] = [@ EXCEPT !.pc = "done", !.tp = tp]]
                 ELSE Overlap(g, [gor[g] EXCEPT !.pc = "reading", !.tp = tp], {"writing"})
    /\ UNCHANGED <<api, db, share, sharePtr, wrap, eng, last, calls, ret>>

\* dsc, ok = db.dscMap[recTp] ends: a hit returns the entry, a miss goes on
\* to build
GoRead(g) ==
    /\ api = "db" /\ gor[g].pc = "reading"
    /\ LET hit(dsc) == [gor EXCEPT ![g] = [@ EXCEPT !.pc = "done", !.dsc = dsc]]
           miss == [gor EXCEPT ![g] = [@ EXCEPT !.pc = "building"]]
           read == IF gor[g].tp \in DOMAIN db.dscMap THEN hit(db.dscMap[gor[g].tp]) ELSE miss
       IN  IF gor[g].raced
           THEN \/ gor' = read /\ api' = api
                \/ gor' = miss /\ api' = api
                \/ gor' = hit(Torn) /\ api' = api
                \/ gor' = gor /\ api' = "fatal"
           ELSE gor' = read /\ api' = api
    /\ UNCHANGED <<db, share, sharePtr, wrap, eng, last, calls, ret>>

\* the build: a type that cannot be described sets db.err and is returned as
\* far as it was built, any other starts the write db.dscMap[recTp] = dsc
GoBuild(g) ==
    /\ api = "db" /\ gor[g].pc = "building"
    /\ LET b == Built(gor[g].tp) IN
       IF b.err # Nil
       THEN /\ db' = SetErrorf(db, b.err)
            /\ gor' = [gor EXCEPT ![g] = [@ EXCEPT !.pc = "done", !.dsc = b.dsc]]
       ELSE /\ db' = db
            /\ gor' = Overlap(g, [gor[g] EXCEPT !.pc = "writing", !.dsc = b.dsc],
                              {"reading", "writing"})
    /\ UNCHANGED <<api, share, sharePtr, wrap, eng, last, calls, ret>>

\* db.dscMap[recTp] = dsc ends and dscFromType returns
GoStore(g) ==
    /\ api = "db" /\ gor[g].pc = "writing"
    /\ LET store(dsc) == [db EXCEPT !.dscMap = (gor[g].tp :> dsc) @@ @]
           done == [gor EXCEPT ![g] = [@ EXCEPT !.pc = "done"]]
       IN  IF gor[g].raced
           THEN \/ db' = store(gor[g].dsc) /\ gor' = done /\ api' = api
                \/ db' = store(Torn) /\ gor' = done /\ api' = api
                \/ db' = db /\ gor' = gor /\ api' = "fatal"
           ELSE db' = store(gor[g].dsc) /\ gor' = done /\ api' = api
    /\ UNCHANGED <<share, sharePtr, wrap, eng, last, calls, ret>>

NextBuild == \E g \in Routines : GoCall(g) \/ GoRead(g) \/ GoBuild(g) \/ GoStore(g)

SpecBuild == InitCache /\ [][NextBuild]_vars

----------------------------------------------------------------------------
(* The wrappers called with values of any type: wrapper w1 carries the     *)
(* descriptor of abType, wrapper w2, joined to it, the descriptor of       *)
(* simpleType, a structure of the same table without primary key.          *)

simpleType ==
    << Field("A", "int64", "*", "", "rec", ""), Field("B", "int64", "*", "", "", "") >>

\* the descriptor wrapper w carries
DscOf(w) == IF w = "w1" THEN abDsc ELSE describeStruct("simpleType", simpleType).dsc

\* the values passed as records: structures of two types and an int, each
\* by value and by pointer
ArgRecs ==
    {[kind |-> kind, elem |-> elem[1], tp |-> elem[2], val |-> elem[3]] :
        kind \in {"ptr", "val"},
        elem \in {<<"struct", "abType", UpdRec(1)>>,
                  <<"struct", "simpleType", [A |-> 3, B |-> 4]>>, <<"int", "int", <<>>>>}}

InitArg ==
    /\ api = "wrap"
    /\ db = [tx |-> NoTx, err |-> Nil,
             stmtMap |-> [x \in {} |-> NoStmt], dscMap |-> [x \in {} |-> dscZero]]
    /\ share = [sh \in Shares |-> [tx |-> NoTx, errVal |-> Nil]]
    /\ sharePtr = [w \in Wrappers |-> IF w = "w1" THEN 1 ELSE WrapJoin(1)]
    /\ wrap = [w \in Wrappers |->
                 [st |-> NoStmt, rows |-> NoRows, args |-> FALSE, res |-> NoResult]]
    /\ eng = [open |-> NoTx, store |-> NoTable, work |-> NoTable, cap |-> MaxRows]
    /\ last = [op |-> "init", who |-> ""]
    /\ calls = <<>>
    /\ ret = NoRet
    /\ gor = NoRoutines

ArgCreate ==
    \E order \in Orders(DOMAIN abDsc.idxMap) :
        WrapDone("Create", "w1", Create(WrapM("w1", {}), abDsc, order), NoRet)

ArgInsert ==
    \E w \in Wrappers, rec \in ArgRecs :
        WrapDone("Insert", w, WrapInsert(WrapM(w, {}), DscOf(w), rec),
                 [NoRet EXCEPT !.arg = <<rec>>])

ArgInsertOrReplace ==
    \E w \in Wrappers, rec \in ArgRecs :
        WrapDone("InsertOrReplace", w, InsertOrReplace(WrapM(w, {}), DscOf(w), rec),
                 [NoRet EXCEPT !.arg = <<rec>>])

ArgUpdate ==
    \E w \in Wrappers, rec \in ArgRecs :
        WrapDone("Update", w, WrapUpdate(WrapM(w, {}), DscOf(w), rec, <<"*">>),
                 [NoRet EXCEPT !.arg = <<rec>>])

ArgQueryRow ==
    \E rec \in ArgRecs, tailStr \in {WhereId(id) : id \in 1..MaxRows} :
        WrapDone("QueryRow", "w1", QueryRow(WrapM("w1", {}), abDsc, rec, tailStr),
                 [NoRet EXCEPT !.arg = <<rec>>])

ArgQuery ==
    \E rec \in ArgRecs :
        WrapDone("Query", "w1", WrapQuery(WrapM("w1", {}), abDsc, rec, ""),
                 [NoRet EXCEPT !.arg = <<rec>>])

ArgClearError ==
    WrapDone("ClearError", "w1", WrapClearError(WrapM("w1", {})), NoRet)

NextArg ==
    \/ ArgCreate \/ ArgInsert \/ ArgInsertOrReplace \/ ArgUpdate
    \/ ArgQueryRow \/ ArgQuery \/ ArgClearError

SpecArg == InitArg /\ [][NextArg]_vars

----------------------------------------------------------------------------
(* Properties of the coordinators' error and transaction handling *)

\* who can make a call: the DbType handle or one of the wrappers
Callers == Wrappers \cup {"db"}

\* the sticky error and the transaction of the coordinator that c calls on
ErrOf(c) == IF c = "db" THEN db.err ELSE Err(c)
TxOf(c) == IF c = "db" THEN db.tx ELSE Tx(c)

\* the operations that go to the engine, under the names of both coordinators
EndOps == {"TransactionEnd", "TransactionCommit", "TransactionRollback"}

Operations ==
    {"Exec", "Query", "TableCreate", "Create", "Insert", "InsertOrReplace", "Update",
     "Delete", "Truncate", "Retrieve", "QueryRow", "Next",
     "TransactBegin", "TransactCommit", "TransactRollback", "TransactionBegin"}
    \cup EndOps

\* the step is the call of one of ops by caller c
Called(c, ops) == last'.who = c /\ last'.op \in ops

\* the step made no engine call, changed nothing of the coordinators or the
\* engine, and returned nothing (Retrieve: the destination as it was passed)
NoOp == calls' = <<>> /\ db' = db /\ share' = share /\ wrap' = wrap /\ eng' = eng
        /\ ret' = [NoRet EXCEPT !.rl = ret'.prior, !.prior = ret'.prior]

\* some engine call of the last operation failed
EngineFailed(cs) == \E i \in 1..Len(cs) : ~cs[i].ok

\* C1 as stated: with the sticky error set, every operation, the transaction
\* endings included, is a complete no-op
C1_AllNoOp ==
    [][\A c \in Callers : Called(c, Operations) /\ ErrOf(c) # Nil => NoOp]_vars

\* C1: with the sticky error set, every operation except WrapType's
\* TransactionEnd, TransactionCommit and TransactionRollback is a complete
\* no-op (no engine call, transaction, statements and sticky error unchanged,
\* empty result); those three leave the sticky error unchanged, and are no-ops
\* too when no transaction is open
C1_NoOp ==
    [][\A c \in Callers :
          Called(c, Operations) /\ ErrOf(c) # Nil =>
              /\ ErrOf(c)' = ErrOf(c)
              /\ last'.op \notin EndOps \/ TxOf(c) = NoTx => NoOp]_vars

\* an errored DbType handle with a transaction open on which Retrieve was called
C1_Witness ==
    /\ last = [op |-> "Retrieve", who |-> "db"]
    /\ db.err = "application error" /\ db.tx # NoTx /\ eng.open = db.tx
    /\ calls = <<>> /\ ret.prior # <<>> /\ ret.rl = ret.prior

\* C2 as stated: once the sticky error is set no call other than ClearError
\* changes it
C2_FirstWins ==
    [][\A c \in Callers :
          last'.who = c /\ last'.op # "ClearError" /\ ErrOf(c) # Nil =>
              ErrOf(c)' = ErrOf(c)]_vars

\* C3 as stated: when an engine call of an operation failed the sticky error
\* is set when the operation returns, and a set sticky error stays set until
\* ClearError
C3_Errored ==
    [][\A c \in Callers :
          last'.who = c =>
              /\ EngineFailed(calls') => ErrOf(c)' # Nil
              /\ last'.op # "ClearError" /\ ErrOf(c) # Nil => ErrOf(c)' # Nil]_vars

\* C4 as stated: a transaction that is open when Insert, Update, Delete or
\* Truncate is called is still open, neither committed nor rolled back, when
\* the operation returns
C4_CallerTxKept ==
    [][\A c \in Callers :
          Called(c, {"Insert", "Update", "Delete", "Truncate"}) /\ TxOf(c) # NoTx =>
              /\ TxOf(c)' = TxOf(c) /\ eng'.open = eng.open
              /\ \A i \in 1..Len(calls') : calls'[i].op \notin {"commit", "rollback"}]_vars

\* the engine calls cs are one transaction of the operation's own: it begins,
\* every statement runs in it, and it ends with a commit when every call in it
\* succeeded and with a rollback otherwise
OwnTx(cs) ==
    /\ cs # <<>> /\ cs[1].op = "begin"
    /\ cs[1].ok =>
          /\ Len(cs) > 2
          /\ \A i \in 2..(Len(cs) - 1) :
                /\ cs[i].op \in {"prepare", "exec"}
                /\ cs[i].op = "exec" => cs[i].tx = cs[1].tx
          /\ cs[Len(cs)].tx = cs[1].tx
          /\ cs[Len(cs)].op = IF \A i \in 2..(Len(cs) - 1) : cs[i].ok
                              THEN "commit" ELSE "rollback"
          /\ cs[Len(cs)].op = "commit" => cs[Len(cs) - 1].op = "exec"

\* C5 as stated: called with no transaction open, Update, Delete and Truncate
\* of either coordinator run their statement in a transaction of their own
\* and leave none open
C5_AllOwnTx ==
    [][\A c \in Callers :
          Called(c, {"Update", "Delete", "Truncate"}) /\ ErrOf(c) = Nil /\ TxOf(c) = NoTx =>
              OwnTx(calls') /\ TxOf(c)' = NoTx /\ eng'.open = NoTx]_vars

\* C5: called with no transaction open, DbType's Update, Delete and Truncate
\* run their statement in a transaction they open, commit it when the
\* statement succeeded, roll it back otherwise, and leave no transaction open;
\* WrapType's Update and Delete open no transaction: their statement runs
\* directly on the connection and no transaction is open afterwards either
C5_OwnTx ==
    [][\A c \in Callers :
          Called(c, {"Update", "Delete", "Truncate"}) /\ ErrOf(c) = Nil /\ TxOf(c) = NoTx =>
              /\ TxOf(c)' = NoTx /\ eng'.open = NoTx
              /\ IF c = "db" THEN OwnTx(calls')
                 ELSE \A i \in 1..Len(calls') :
                         calls'[i].op \in {"prepare", "exec"} /\ calls'[i].tx = NoTx]_vars

\* DbType.Delete, called with no transaction open, has committed its statement
\* in a transaction of its own
C5_Witness ==
    /\ last = [op |-> "Delete", who |-> "db"]
    /\ Len(calls) = 3 /\ calls[1].op = "begin" /\ calls[2].op = "exec"
    /\ calls[2].tx = calls[1].tx /\ calls[3].op = "commit" /\ calls[3].ok
    /\ db.tx = NoTx /\ eng.open = NoTx

\* C6: when the engine fails a record of a bulk Insert, no later record is
\* sent to the engine, the transaction is rolled back and the table holds
\* what it held before the call
C6_AllOrNothing ==
    [][Called("db", {"Insert"}) =>
          \A i \in 1..Len(calls') :
              calls'[i].op = "exec" /\ ~calls'[i].ok =>
                  /\ \A j \in (i + 1)..Len(calls') : calls'[j].op # "exec"
                  /\ calls'[Len(calls')].op = "rollback" /\ Len(calls') = i + 1
                  /\ eng'.store = eng.store /\ eng'.open = NoTx /\ db'.tx = NoTx]_vars

\* a bulk Insert whose first record the engine took and whose second it failed
C6_Witness ==
    /\ last = [op |-> "Insert", who |-> "db"]
    /\ \E i \in 1..Len(calls) :
          /\ calls[i].op = "exec" /\ calls[i].ok
          /\ i + 2 = Len(calls)
          /\ calls[i + 1].op = "exec" /\ ~calls[i + 1].ok
          /\ calls[i + 2].op = "rollback" /\ calls[i + 2].ok
    /\ eng.store.exists /\ eng.store.rows = {}

NestedTransaction == "nested transactions not supported"

NoActiveTransaction ==
    {"no transaction to commit", "no transaction to rollback", "no transaction to end"}

BeginOps == {"TransactBegin", "TransactionBegin"}

\* C7 as stated: on either coordinator, begin with a transaction open and no
\* error latched latches the nested-transaction error
C7_AllNested ==
    [][\A c \in Callers :
          Called(c, BeginOps) /\ ErrOf(c) = Nil /\ TxOf(c) # NoTx =>
              /\ ErrOf(c)' = NestedTransaction
              /\ calls' = <<>> /\ TxOf(c)' = TxOf(c) /\ eng' = eng]_vars

\* C7: with a transaction open and no error latched, WrapType's
\* TransactionBegin latches the nested-transaction error, and DbType's
\* TransactBegin latches nothing; neither calls the engine, and the open
\* transaction stays open
C7_Nested ==
    [][\A c \in Callers :
          Called(c, BeginOps) /\ ErrOf(c) = Nil /\ TxOf(c) # NoTx =>
              /\ ErrOf(c)' = IF c = "db" THEN Nil ELSE NestedTransaction
              /\ calls' = <<>> /\ TxOf(c)' = TxOf(c) /\ eng' = eng]_vars

\* a wrapper has begun a transaction while the one of its peer was open
C7_Witness ==
    /\ last = [op |-> "TransactionBegin", who |-> "w2"]
    /\ Err("w2") = NestedTransaction /\ Tx("w2") # NoTx /\ eng.open = Tx("w2")
    /\ calls = <<>>

\* C8: commit or rollback with no transaction open and no error latched
\* latches a no-transaction error, calls the engine not at all and leaves the
\* coordinator without a transaction
C8_NoActive ==
    [][\A c \in Callers :
          /\ Called(c, {"TransactCommit", "TransactRollback",
                        "TransactionCommit", "TransactionRollback"})
          /\ ErrOf(c) = Nil /\ TxOf(c) = NoTx
          => /\ ErrOf(c)' \in NoActiveTransaction
             /\ calls' = <<>> /\ TxOf(c)' = NoTx /\ eng' = eng]_vars

\* DbType.TransactRollback was called with nothing to roll back
C8_Witness ==
    /\ last = [op |-> "TransactRollback", who |-> "db"]
    /\ db.err = "no transaction to rollback" /\ db.tx = NoTx /\ calls = <<>>

\* C9: with a transaction open, TransactionEnd commits it when no error is
\* latched and rolls it back when one is; after it, after TransactionCommit and
\* TransactionRollback, and after DbType's TransactCommit and TransactRollback
\* on a handle without error, no transaction is open, whatever the engine
\* answered
C9_End ==
    [][\A c \in Callers :
          last'.who = c /\ TxOf(c) # NoTx =>
              /\ last'.op = "TransactionEnd" =>
                    /\ Len(calls') = 1 /\ calls'[1].tx = TxOf(c)
                    /\ calls'[1].op = IF ErrOf(c) = Nil THEN "commit" ELSE "rollback"
              /\ \/ last'.op \in EndOps
                 \/ last'.op \in {"TransactCommit", "TransactRollback"} /\ ErrOf(c) = Nil
                 => TxOf(c)' = NoTx /\ eng'.open = NoTx]_vars

\* TransactionEnd on an errored wrapper rolled the transaction back, the
\* engine failed the rollback, and no transaction is open
C9_Witness ==
    /\ last = [op |-> "TransactionEnd", who |-> "w1"]
    /\ Len(calls) = 1 /\ calls[1].op = "rollback" /\ ~calls[1].ok
    /\ Err("w1") # Nil /\ Tx("w1") = NoTx /\ eng.open = NoTx

\* joined wrappers answer Tx() and Err() alike after the step
SharedAfter == \A w, v \in Wrappers : Tx(w)' = Tx(v)' /\ Err(w)' = Err(v)'

\* the transaction was rolled back by the last call, and this step is w ending
\* a transaction with no error latched: it fails with the no-transaction error
NoActiveAfterRollback(w) ==
    /\ last.op \in EndOps /\ calls # <<>> /\ calls[1].op = "rollback"
    /\ Called(w, EndOps) /\ Err(w) = Nil
    => Err(w)' \in NoActiveTransaction /\ calls' = <<>> /\ Tx(w)' = NoTx

\* C10 as stated: joined wrappers share transaction and sticky error, a
\* transaction rolled back through one is gone for all, and an error latched
\* through one makes every operation of all a no-op
C10_AllNoOp ==
    [][api = "wrap" =>
          /\ SharedAfter
          /\ \A w \in Wrappers :
                /\ NoActiveAfterRollback(w)
                /\ Called(w, Operations) /\ Err(Peer(w)) # Nil => NoOp]_vars

\* C10: joined wrappers share one transaction and one sticky error: Tx() and
\* Err() answer alike on all of them after every call; after a rollback
\* through one, ending a transaction through any fails with the no-transaction
\* error; an error latched through one makes the operations of all no-ops,
\* except that TransactionEnd, TransactionCommit and TransactionRollback still
\* end an open transaction
C10_Joined ==
    [][api = "wrap" =>
          /\ SharedAfter
          /\ \A w \in Wrappers :
                /\ NoActiveAfterRollback(w)
                /\ Called(w, Operations \ EndOps) /\ Err(Peer(w)) # Nil => NoOp]_vars

\* w2 asked to end a transaction when the state it shares with w1 held none:
\* no engine call was made, and w1 sees the error that call latched
C10_Witness ==
    /\ last.who = "w2" /\ last.op \in EndOps /\ calls = <<>>
    /\ Err("w1") = "no transaction to end" /\ Tx("w1") = NoTx /\ Tx("w2") = NoTx

----------------------------------------------------------------------------
(* Properties of the operations on the table of abType (SpecData) *)

\* the table of abType as it is right after it was created
FreshTable == [NoTable EXCEPT !.exists = TRUE, !.cols = abDsc.nameList]

\* the texts the last operation executed, in order
ExecTexts ==
    LET RECURSIVE texts(_)
        texts(cs) ==
          IF cs = <<>> THEN <<>>
          ELSE IF Head(cs).op = "exec" THEN <<Head(cs).text>> \o texts(Tail(cs))
          ELSE texts(Tail(cs))
    IN texts(calls)

\* the machine of an operation on a DbType handle with fields d over an
\* engine in state e that fails no call
DbMOf(d, e) ==
    [F |-> {}, calls |-> <<>>, e |-> Nil, vTx |-> NoTx, vStmt |-> NoStmt,
     vRes |-> NoResult, vRows |-> NoRows, more |-> FALSE, row |-> 0, dsc |-> dscZero,
     open |-> e.open, store |-> e.store, work |-> e.work, cap |-> e.cap,
     rl |-> <<>>, panic |-> FALSE,
     tx |-> d.tx, err |-> d.err, stmtMap |-> d.stmtMap, dscMap |-> d.dscMap]

\* what Retrieve with tail tailStr into an empty slice returns on handle d
\* over engine e
Retrieved(d, e, tailStr) == Retrieve(DbMOf(d, e), abSlicePtr, tailStr).rl

\* C11 as stated: on a session with no error, table creation through either
\* coordinator succeeds whether or not the table exists and leaves the table
\* empty with the descriptor's columns
C11_Destructive ==
    [][\A c \in Callers :
          Called(c, {"TableCreate", "Create"}) /\ ErrOf(c) = Nil
            => ErrOf(c)' = Nil /\ eng'.store = FreshTable]_vars

\* C11: DbType.TableCreate on a session with no error drops the table, then
\* creates it: it succeeds whether or not the table exists, the table is
\* left empty with the descriptor's columns whatever it held, and an
\* unfiltered Retrieve right after it returns no record; WrapType.Create
\* only creates: it succeeds when there is no table, and when there is one it
\* latches the engine's error and leaves the table and its rows as they were
C11_TableCreate ==
    [][/\ Called("db", {"TableCreate"}) /\ db.err = Nil
            => /\ db'.err = Nil
               /\ eng'.store = FreshTable
               /\ Retrieved(db', eng', "") = <<>>
               /\ ExecTexts' = <<"DROP TABLE IF EXISTS rec;",
                                 "CREATE TABLE rec (A integer, B integer);">>
       /\ \A w \in Wrappers :
            Called(w, {"Create"}) /\ Err(w) = Nil
              => IF eng.store.exists
                 THEN Err(w)' = ErrStmt /\ eng'.store = eng.store
                 ELSE Err(w)' = Nil /\ eng'.store = FreshTable]_vars

\* TableCreate succeeded on a table that held a row: the insert statement is
\* in the cache, so a record was inserted before, and the table is empty
C11_Witness ==
    /\ last = [op |-> "TableCreate", who |-> "db"] /\ db.err = Nil
    /\ "INSERT INTO rec (A, B) VALUES (?, ?);" \in DOMAIN db.stmtMap
    /\ eng.store = FreshTable

\* the text of the query the last operation sent to the engine
QueryText(cs) == cs[CHOOSE i \in 1..Len(cs) : cs[i].op = "query"].text

\* the records of abType that the query text returns from table state t, in
\* the order the engine returns them
ResultRecs(text, t) ==
    [i \in 1..Cardinality(SqlMatch(text, t.rows)) |->
       scanInto(ZeroRec("abType"), abDsc.selSfList,
                SqlRow(text, t, SortedSeq(SqlMatch(text, t.rows))[i]))]

\* the positions in cs of the scans, and of those that failed
Scans(cs) == {i \in 1..Len(cs) : cs[i].op = "scan"}

FailedScans(cs) == {i \in Scans(cs) : ~cs[i].ok}

\* C12 as stated: when scanning a row fails during Retrieve, no later row is
\* scanned, and the destination slice holds its prior content followed by
\* the rows scanned before the failure
C12_PartialKept ==
    [][Called("db", {"Retrieve"}) /\ FailedScans(calls') # {}
         => /\ \A i \in Scans(calls') : i <= Max(FailedScans(calls'))
            /\ Cardinality(FailedScans(calls')) = 1
            /\ ret'.rl = ret'.prior
                           \o SubSeq(ResultRecs(QueryText(calls'), eng.store), 1,
                                     Cardinality(Scans(calls')) - 1)]_vars

RowRec(row) == scanInto(ZeroRec("abType"), abDsc.selSfList, row)

\* C14: Next on a wrapper with a query in progress and no sticky error
\* returns true with the next row of the cursor scanned into the record, the
\* cursor advanced by that row, when the cursor has a row and no engine call
\* fails; it returns false with the sticky error nil when the rows are
\* exhausted, and false with the sticky error set when the cursor or the scan
\* fails; without a query in progress it returns false and reads nothing
C14_Next ==
    [][\A w \in StmtWrappers :
          Called(w, {"Next"})
            => IF Err(w) = Nil /\ wrap[w].args /\ wrap[w].rows.open
               THEN IF \A i \in 1..Len(calls') : calls'[i].ok
                    THEN IF wrap[w].rows.data # <<>>
                         THEN /\ ret'.more /\ Err(w)' = Nil
                              /\ ret'.rl = <<RowRec(Head(wrap[w].rows.data))>>
                              /\ wrap'[w].rows.data = Tail(wrap[w].rows.data)
                         ELSE ~ret'.more /\ Err(w)' = Nil /\ wrap'[w].rows = NoRows
                    ELSE ~ret'.more /\ Err(w)' # Nil
               ELSE ~ret'.more /\ calls' = <<>> /\ wrap' = wrap /\ share' = share]_vars

\* Next returned true for the second and last row of the cursor
C14_Witness ==
    /\ last = [op |-> "Next", who |-> "w1"] /\ ret.more /\ Err("w1") = Nil
    /\ ret.rl = <<[ID |-> 2, A |-> 1, B |-> 2]>>
    /\ wrap["w1"].rows = [open |-> TRUE, data |-> <<>>]

\* the machine of an operation on a wrapper with fields wr and shared state
\* sh over an engine in state e that fails no call
WrapMOf(sh, wr, e) ==
    [F |-> {}, calls |-> <<>>, e |-> Nil, vTx |-> NoTx, vStmt |-> NoStmt,
     vRes |-> NoResult, vRows |-> NoRows, more |-> FALSE, row |-> 0, dsc |-> dscZero,
     open |-> e.open, store |-> e.store, work |-> e.work, cap |-> e.cap,
     rl |-> <<>>, panic |-> FALSE,
     tx |-> sh.tx, err |-> sh.errVal,
     st |-> wr.st, rows |-> wr.rows, args |-> wr.args, res |-> wr.res]

\* what QueryRow with tail tailStr into a zero record returns on that wrapper
Selected(sh, wr, e, tailStr) ==
    QueryRow(WrapMOf(sh, wr, e), abDsc, abPtr(ZeroRec("abType")), tailStr).rl

\* every engine call of the operation succeeded
AllOk(cs) == \A i \in 1..Len(cs) : cs[i].ok

\* C15: after a successful insert, each record inserted (the one passed by
\* pointer to WrapType.Insert, every element of the slice passed to
\* DbType.Insert) holds in its primary key the identifier of a row the call
\* added, distinct for each record, and selecting by that identifier returns
\* the inserted record with that identifier as its primary key (DbType.Insert
\* is successful when its statements and its commit succeeded)
C15_InsertId ==
    [][/\ \A w \in StmtWrappers :
            Called(w, {"Insert"}) /\ Err(w) = Nil /\ Err(w)' = Nil
              => /\ Len(ret'.rl) = 1
                 /\ ret'.rl[1] = [ret'.prior[1] EXCEPT !.ID = ret'.rl[1].ID]
                 /\ eng'.store.rows = eng.store.rows \cup {ret'.rl[1].ID}
                 /\ ret'.rl[1].ID \notin eng.store.rows
                 /\ Selected(share'[sharePtr[w]], wrap'[w], eng', WhereId(ret'.rl[1].ID))
                      = ret'.rl
       /\ Called("db", {"Insert"}) /\ db.err = Nil /\ db'.err = Nil /\ AllOk(calls')
            => /\ Len(ret'.rl) = Len(ret'.prior)
               /\ eng'.store.rows = eng.store.rows \cup {ret'.rl[i].ID : i \in 1..Len(ret'.rl)}
               /\ \A i \in 1..Len(ret'.rl) :
                     /\ ret'.rl[i] = [ret'.prior[i] EXCEPT !.ID = ret'.rl[i].ID]
                     /\ ret'.rl[i].ID \notin eng.store.rows
                     /\ \A j \in 1..Len(ret'.rl) : ret'.rl[j].ID = ret'.rl[i].ID => j = i
                     /\ Retrieved(db', eng', WhereId(ret'.rl[i].ID)) = <<ret'.rl[i]>>]_vars

\* the second record inserted through the wrapper got identifier 2
C15_Witness ==
    /\ last = [op |-> "Insert", who |-> "w1"] /\ Err("w1") = Nil
    /\ ret.rl = <<[ID |-> 2, A |-> 1, B |-> 2]>> /\ ret.prior = <<InsRec>>
    /\ eng.store.rows = {1, 2}

\* table state t after the columns names of its row with the primary key of
\* rec were set to the values rec holds
Updated(t, rec, names) ==
    [t EXCEPT !.cell = [id \in t.rows |->
                          [c \in DOMAIN t.cell[id] |->
                             IF id = rec.ID /\ c \in Range(names) THEN rec[c]
                             ELSE t.cell[id][c]]]]

\* C16: a successful Update with a list of column names sets, in the stored
\* row whose identifier is the record's primary key, the named columns to the
\* record's values; every other column of that row and every other row is
\* as before, in the table and when selected again
C16_UpdateSubset ==
    [][\A c \in Callers :
          Called(c, {"Update"}) /\ ErrOf(c) = Nil /\ ErrOf(c)' = Nil /\ AllOk(calls')
            /\ ret'.arg[1] # "*" /\ api' = api
            => /\ eng'.store = Updated(eng.store, ret'.prior[1], ret'.arg)
               /\ c = "db" => Retrieved(db', eng', "")
                                = ResultRecs("SELECT rowid, A, B FROM rec;",
                                             Updated(eng.store, ret'.prior[1], ret'.arg))
               /\ c # "db" /\ ret'.prior[1].ID \in eng.store.rows
                    => Selected(share'[sharePtr[c]], wrap'[c], eng',
                                WhereId(ret'.prior[1].ID))
                         = <<[ID |-> ret'.prior[1].ID,
                              A |-> eng.store.cell[ret'.prior[1].ID].A,
                              B |-> ret'.prior[1].B]>>]_vars

\* Update of column B of row 2 succeeded: row 2 holds the record's B and its
\* own A, row 1 is as it was inserted
C16_Witness ==
    /\ last = [op |-> "Update", who |-> "db"] /\ db.err = Nil /\ AllOk(calls)
    /\ ret.arg = <<"B">> /\ ret.prior = <<UpdRec(2)>>
    /\ eng.store.rows = {1, 2}
    /\ eng.store.cell[1] = [A |-> 1, B |-> 2] /\ eng.store.cell[2] = [A |-> 1, B |-> 4]

\* the rows among rows that the filter tailStr matches
Matching(tailStr, rows) ==
    IF tailStr = "" THEN rows ELSE {id \in rows : tailStr = WhereId(id)}

\* C17: a successful Delete with a tail filter removes the rows of the table
\* that the filter matches and no other: the number of rows afterwards is the
\* number before minus the number of matching rows, and every row that does
\* not match is still there with its column values
C17_DeleteFilter ==
    [][\A c \in Callers :
          Called(c, {"Delete"}) /\ ErrOf(c) = Nil /\ ErrOf(c)' = Nil /\ AllOk(calls')
            => /\ eng'.store.rows = eng.store.rows \ Matching(ret'.arg[1], eng.store.rows)
               /\ Cardinality(eng'.store.rows)
                    = Cardinality(eng.store.rows)
                        - Cardinality(Matching(ret'.arg[1], eng.store.rows))
               /\ \A id \in eng'.store.rows : eng'.store.cell[id] = eng.store.cell[id]
               /\ eng'.store.exists /\ eng'.store.cols = eng.store.cols]_vars

\* Delete with the filter on row 1 succeeded on a table of two rows: row 2 is
\* left
C17_Witness ==
    /\ last = [op |-> "Delete", who |-> "db"] /\ db.err = Nil /\ AllOk(calls)
    /\ ret.arg = <<WhereId(1)>>
    /\ \E i \in 1..Len(calls) : calls[i].op = "exec"
    /\ eng.store.rows = {2} /\ eng.store.cell[2] = [A |-> 1, B |-> 2]

\* C18: a successful Truncate leaves the table with no row whatever it held;
\* in every state Truncate does what Delete with an empty tail does, engine
\* calls and their texts included, and TruncateStr is the text that
\* WrapType.Delete sends for an empty tail
C18_Truncate ==
    [][/\ Called("db", {"Truncate"}) /\ db.err = Nil /\ db'.err = Nil /\ AllOk(calls')
            => /\ eng'.store = [eng.store EXCEPT !.rows = {}, !.cell = <<>>]
               /\ Retrieved(db', eng', "") = <<>>
               /\ ExecTexts' = <<TruncateStr(abDsc)>>
       /\ api = "db"
            => Truncate(DbMOf(db, eng), abPtr(InsRec))
                 = DbDelete(DbMOf(db, eng), abPtr(InsRec), "")
       /\ TruncateStr(abDsc) = "DELETE FROM " \o abDsc.tblStr \o prePad("") \o ";"]_vars

\* Truncate succeeded on a table of two rows and left none
C18_Witness ==
    /\ last = [op |-> "Truncate", who |-> "db"] /\ db.err = Nil /\ AllOk(calls)
    /\ ret.res.n = 2 /\ eng.store.exists /\ eng.store.rows = {}

\* the column list names a column the descriptor does not manage
NamesUnknown(names) == \E i \in 1..Len(names) : names[i] \notin DOMAIN abDsc.nameMap \cup {"*"}

\* C19 as stated: an Update that names a column the descriptor does not
\* manage latches the error that UpdateArg returns for that name and changes
\* no stored row
C19_UnknownColumn ==
    [][\A c \in Callers :
          Called(c, {"Update"}) /\ ErrOf(c) = Nil /\ NamesUnknown(ret'.arg)
            => /\ api' = api
               /\ ErrOf(c)' = UpdateArg(abDsc, abPtr(ret'.prior[1]), ret'.arg)
               /\ eng'.store = eng.store]_vars

----------------------------------------------------------------------------
(* Properties of the descriptor (SpecDsc) *)

MissingTableTag == "missing \"db_table\" tag"

MultipleTableTags == "multiple occurrence of \"db_table\" tag"

NoManagedFields == "at least one exported structure field must have \"db\" tag"

\* the positions of the fields of sfList that carry a db_table tag
TableTags(sfList) == {i \in 1..Len(sfList) : sfList[i].db_table # ""}

\* Describe was called for a structure type with the fields last.who.sfList
Described == last.op = "Describe" /\ last.who.kind = "fields"

\* C20 as stated: the build succeeds only with exactly one db_table tag,
\* whose value is then the table name; with none it fails with
\* MissingTableTag and with more than one with MultipleTableTags
C20_ExactlyOne ==
    Described
      => /\ ret.err = Nil
              => /\ Cardinality(TableTags(last.who.sfList)) = 1
                 /\ \A i \in TableTags(last.who.sfList) :
                       ret.dsc.tblStr = last.who.sfList[i].db_table
         /\ Cardinality(TableTags(last.who.sfList)) = 0 => ret.err = MissingTableTag
         /\ Cardinality(TableTags(last.who.sfList)) > 1 => ret.err = MultipleTableTags

\* sfList with the db_table tag of field i set to table
Tagged(sfList, i, table) ==
    [k \in 1..Len(sfList) |-> IF k = i THEN [sfList[k] EXCEPT !.db_table = table] ELSE sfList[k]]

\* no field of sfList is rejected by the field loop of describe
FieldsPass(sfList) ==
    describeStruct("gen", sfList).err \in {Nil, NoManagedFields, MissingTableTag}

\* the position of the second field of sfList that carries a db_table tag
SecondTag(sfList) ==
    CHOOSE k \in TableTags(sfList) : Cardinality({i \in TableTags(sfList) : i < k}) = 1

\* C20: the build succeeds only with exactly one db_table tag, whose
\* non-empty value is then the table name.  With none it fails, and the
\* error is MissingTableTag exactly when the type would build with the tag
\* added; otherwise an earlier check reports (a rejected field, or
\* NoManagedFields).  With more than one it fails, and the error is
\* MultipleTableTags, whether or not the tags name the same table, exactly
\* when no field up to the second tagged one is rejected for another reason
C20_TableTag ==
    Described
      => /\ ret.err = Nil
              => /\ Cardinality(TableTags(last.who.sfList)) = 1
                 /\ ret.dsc.tblStr # ""
                 /\ \A i \in TableTags(last.who.sfList) :
                       ret.dsc.tblStr = last.who.sfList[i].db_table
         /\ Cardinality(TableTags(last.who.sfList)) = 0
              => /\ ret.err # Nil
                 /\ ret.err = MissingTableTag
                      <=> /\ Len(last.who.sfList) > 0
                          /\ describeStruct("gen", Tagged(last.who.sfList, 1, "rec")).err = Nil
         /\ Cardinality(TableTags(last.who.sfList)) > 1
              => /\ ret.err # Nil
                 /\ ret.err = MultipleTableTags
                      <=> FieldsPass(Tagged(SubSeq(last.who.sfList, 1,
                                                   SecondTag(last.who.sfList)),
                                            SecondTag(last.who.sfList), ""))

\* a type whose two fields both carry the tag of table rec was described and
\* rejected for the second tag
C20_Witness ==
    /\ Described /\ Len(last.who.sfList) = 2
    /\ \A i \in 1..2 : last.who.sfList[i].db_table = "rec"
    /\ ret.err = MultipleTableTags

MultiplePrimaryKeyTags == "multiple occurrence of \"db_primary\" tag"

PrimaryKeyTypeMismatch(tp) == "expecting int64 for id, got " \o Kind(tp)

UnsupportedFieldType(tp) == "database does not support fields of type " \o tp

\* the positions of the fields of sfList that carry a db_primary tag
PrimaryTags(sfList) == {i \in 1..Len(sfList) : sfList[i].db_primary # ""}

\* the column a field with a db tag resolves to
ColName(sf) == IF sf.db = "*" THEN sf.Name ELSE sf.db

\* the names the select list of dsc is generated from: rowid for the primary
\* key field, its column for every other field
SelNames(dsc) ==
    [k \in 1..Len(dsc.selSfList) |->
       IF dsc.idPresent /\ dsc.selSfList[k] = dsc.idSf THEN "rowid"
       ELSE ColName(dsc.selSfList[k])]

\* field i of sfList is the primary key of dsc: not a managed column, and
\* selected as rowid
IsPrimaryKey(dsc, sfList, i) ==
    /\ dsc.idPresent /\ dsc.idSf = sfList[i]
    /\ \A k \in 1..Len(dsc.insSfList) : dsc.insSfList[k] # sfList[i]
    /\ \E k \in 1..Len(dsc.selSfList) : dsc.selSfList[k] = sfList[i]
    /\ dsc.selNameStr = Join(SelNames(dsc), ", ")

\* C21: the build succeeds only if at most one field carries a db_primary
\* tag and that field is an int64, whatever other tags the fields carry; on
\* success that field is not a managed column and is selected as rowid; a
\* second tagged field is rejected with MultiplePrimaryKeyTags and a tagged
\* field that is not an int64 with PrimaryKeyTypeMismatch (when no earlier
\* field was rejected)
C21_PrimaryKey ==
    Described
      => /\ ret.err = Nil
              => /\ Cardinality(PrimaryTags(last.who.sfList)) <= 1
                 /\ \A i \in PrimaryTags(last.who.sfList) :
                       /\ last.who.sfList[i].Type = "int64"
                       /\ IsPrimaryKey(ret.dsc, last.who.sfList, i)
         /\ \A i \in PrimaryTags(last.who.sfList) :
               FieldsPass(SubSeq(last.who.sfList, 1, i - 1))
                 => IF \E j \in PrimaryTags(last.who.sfList) : j < i
                    THEN ret.err = MultiplePrimaryKeyTags
                    ELSE last.who.sfList[i].Type # "int64"
                           => ret.err = PrimaryKeyTypeMismatch(last.who.sfList[i].Type)

\* the same for the types in which no field carries both a db tag and a
\* db_primary tag
C21_Exclusive ==
    (Described /\ \A i \in PrimaryTags(last.who.sfList) : last.who.sfList[i].db = "")
      => C21_PrimaryKey

MalformedIndexTag(tagStr) == "malformed index tag: " \o tagStr

\* the positions of the managed columns of sfList: the fields with a db tag
Columns(sfList) == {i \in 1..Len(sfList) : sfList[i].db # ""}

\* the defect of field i of sfList, given that no field before it has one:
\* a column of a type outside typeMap or with a malformed index tag, a second
\* or a non-int64 primary key, then a second table tag
Defect(sfList, i) ==
    LET tableDefect ==
          IF sfList[i].db_table # "" /\ \E j \in 1..(i - 1) : sfList[j].db_table # ""
          THEN MultipleTableTags ELSE Nil
    IN  IF sfList[i].db # ""
        THEN IF sfList[i].Type \notin DOMAIN typeMap
             THEN UnsupportedFieldType(sfList[i].Type)
             ELSE IF sfList[i].db_index # "" /\ sfList[i].db_index \notin DOMAIN IdxTags
             THEN MalformedIndexTag(sfList[i].db_index)
             ELSE tableDefect
        ELSE IF sfList[i].db_primary # ""
        THEN IF \E j \in 1..(i - 1) : sfList[j].db = "" /\ sfList[j].db_primary # ""
             THEN MultiplePrimaryKeyTags
             ELSE IF sfList[i].Type # "int64"
             THEN PrimaryKeyTypeMismatch(sfList[i].Type)
             ELSE tableDefect
        ELSE tableDefect

\* the fields of sfList that have a defect
Defects(sfList) == {i \in 1..Len(sfList) : Defect(sfList, i) # Nil}

\* the error of the first defect of a type with fields sfList in declaration
\* order, the check for managed columns coming after the fields and the check
\* for the table name last
FirstDefect(sfList) ==
    IF Defects(sfList) # {}
    THEN Defect(sfList, CHOOSE i \in Defects(sfList) : \A j \in Defects(sfList) : i <= j)
    ELSE IF Columns(sfList) = {} THEN NoManagedFields
    ELSE IF TableTags(sfList) = {} THEN MissingTableTag
    ELSE Nil

\* C22: a build reports the first defect met in declaration order:
\* UnsupportedFieldType for a column of a type outside the scalar table when
\* no earlier field is rejected, NoManagedFields when no field is rejected
\* and none is a column, also when the table tag is missing as well
C22_FirstDefect ==
    Described
      => /\ ret.err = FirstDefect(last.who.sfList)
         /\ \A i \in Columns(last.who.sfList) :
               /\ last.who.sfList[i].Type \notin DOMAIN typeMap
               /\ \A j \in 1..(i - 1) : Defect(last.who.sfList, j) = Nil
               => ret.err = UnsupportedFieldType(last.who.sfList[i].Type)
         /\ Columns(last.who.sfList) = {}
               => ret.err # Nil
                  /\ (Defects(last.who.sfList) = {} => ret.err = NoManagedFields)

\* a type of two fields without a column and without a table tag was
\* described and rejected for the missing columns
C22_Witness ==
    /\ Described /\ Len(last.who.sfList) = 2
    /\ Columns(last.who.sfList) = {} /\ TableTags(last.who.sfList) = {}
    /\ Defects(last.who.sfList) = {}
    /\ ret.err = NoManagedFields

\* C23: in a descriptor that was built the managed column names are
\* pairwise distinct and are the columns of the db-tagged fields in
\* declaration order
C23_DistinctNames ==
    (Described /\ ret.err = Nil)
      => /\ \A i, j \in 1..Len(ret.dsc.nameList) :
               ret.dsc.nameList[i] = ret.dsc.nameList[j] => i = j
         /\ ret.dsc.nameList
              = [k \in 1..Cardinality(Columns(last.who.sfList)) |->
                   ColName(last.who.sfList[SortedSeq(Columns(last.who.sfList))[k]])]

\* the names are those of the db-tagged fields in declaration order
C23_DeclarationOrder ==
    (Described /\ ret.err = Nil)
      => ret.dsc.nameList
           = [k \in 1..Cardinality(Columns(last.who.sfList)) |->
                ColName(last.who.sfList[SortedSeq(Columns(last.who.sfList))[k]])]

----------------------------------------------------------------------------
(* Properties of the descriptor cache (SpecCache) *)

\* the fields of sfList without their db_index tags, which dscFromType only
\* tests for presence
Unindexed(sfList) == [i \in 1..Len(sfList) |-> [sfList[i] EXCEPT !.db_index = ""]]

\* the types of which DbType builds a descriptor
Builds(tp) == IsStruct(tp) /\ FirstDefect(Unindexed(StructTypes[tp])) = Nil

\* C24: the cache holds an entry for a type only if a build of it succeeded,
\* with a table name and a managed column
C24_Entries ==
    \A tp \in DOMAIN db.dscMap :
        /\ Builds(tp)
        /\ db.dscMap[tp].recTp = tp
        /\ db.dscMap[tp].tblStr # "" /\ Len(db.dscMap[tp].nameList) > 0

\* C24: an operation adds to the cache at most the descriptor of the type it
\* was called with, and only if the handle had no error and the type builds;
\* it never removes or replaces an entry; an operation on a cached type
\* issues its statement on the cached descriptor's table
C24_Cache ==
    [][/\ \A tp \in DOMAIN db.dscMap :
             tp \in DOMAIN db'.dscMap /\ db'.dscMap[tp] = db.dscMap[tp]
       /\ \A tp \in DOMAIN db'.dscMap \ DOMAIN db.dscMap :
             /\ db.err = Nil /\ ret'.arg = <<tp>> /\ Builds(tp)
             /\ db'.dscMap[tp].tblStr # "" /\ Len(db'.dscMap[tp].nameList) > 0
       /\ (last'.op \in {"TableCreate", "Truncate", "Delete", "Update"} /\ db.err = Nil)
             => \A tp \in TypeNames :
                   ret'.arg = <<tp>>
                     => /\ Builds(tp) <=> tp \in DOMAIN db'.dscMap
                        /\ (tp \in DOMAIN db.dscMap /\ last'.op = "Truncate")
                             => \E i \in 1..Len(calls') :
                                   calls'[i].text
                                     = "DELETE FROM " \o db.dscMap[tp].tblStr \o ";"]_vars

\* a type that cannot be described was used after another type was cached:
\* the cache still holds that one entry
C24_Witness ==
    /\ last.op = "TableCreate" /\ ret.arg = <<"eType">>
    /\ db.err = "missing \"db_table\" tag"
    /\ DOMAIN db.dscMap = {"abType"}

----------------------------------------------------------------------------
(* Properties of concurrent builds (SpecBuild) *)

\* C25: when the goroutines have described the same type concurrently, the
\* program was not stopped, every goroutine holds the built descriptor of
\* the type and the cache holds that descriptor
C25_ConcurrentBuild ==
    /\ api # "fatal"
    /\ \A tp \in BuildTypes :
          (Built(tp).err = Nil /\ \A g \in Routines : gor[g].pc = "done" /\ gor[g].tp = tp)
            => /\ \A g \in Routines : gor[g].dsc = Built(tp).dsc
               /\ tp \in DOMAIN db.dscMap /\ db.dscMap[tp] = Built(tp).dsc

\* the same for the goroutines whose map accesses did not overlap a write
C25_Unraced ==
    (\A g \in Routines : ~gor[g].raced) => C25_ConcurrentBuild

----------------------------------------------------------------------------
(* Properties of the command texts and the argument lists (SpecDsc) *)

\* C26: two calls of CreateStr on one descriptor return the same CREATE
\* TABLE text and the same list of CREATE INDEX statements in the same order
C26_SameText ==
    last.op = "CreateStr"
      => /\ ret.first.createStr = ret.second.createStr
         /\ ret.first.idxStrList = ret.second.idxStrList

\* the two calls return the same CREATE TABLE text and the same set of
\* CREATE INDEX statements
C26_SameSet ==
    last.op = "CreateStr"
      => /\ ret.first.createStr = ret.second.createStr
         /\ Range(ret.first.idxStrList) = Range(ret.second.idxStrList)
         /\ Len(ret.first.idxStrList) = Len(ret.second.idxStrList)

\* the names of the managed columns of a record type, in declaration order
RECURSIVE ManagedNames(_)
ManagedNames(sfList) ==
    IF sfList = <<>> THEN <<>>
    ELSE (IF Head(sfList).db # "" THEN <<ColName(Head(sfList))>> ELSE <<>>)
           \o ManagedNames(Tail(sfList))

\* the SELECT text over the column list names, for the table and tail given
SelectOver(names, tblStr, tailStr) ==
    "SELECT " \o Join(names, ", ") \o " FROM " \o tblStr
      \o (IF tailStr = "" THEN "" ELSE " " \o tailStr) \o ";"

\* C27: the generated SELECT lists rowid first when the record type has a
\* primary key, wherever that field is declared, followed by the managed
\* columns in declaration order; without a primary key it lists exactly the
\* managed columns
C27_RowidFirst ==
    last.op = "SelectStr"
      => ret.text =
           SelectOver((IF ret.dsc.idPresent THEN <<"rowid">> ELSE <<>>)
                        \o ManagedNames(last.who.sfList),
                      "rec", ret.tailStr)

\* the generated SELECT lists rowid at the position at which the primary
\* key is declared among the managed columns
C27_RowidInPlace ==
    last.op = "SelectStr"
      => ret.text =
           SelectOver([i \in 1..Len(last.who.sfList) |->
                         IF last.who.sfList[i] = ret.dsc.idSf THEN "rowid"
                         ELSE ColName(last.who.sfList[i])],
                      "rec", ret.tailStr)

\* the column of the SELECT list generated from field sf
SelColumn(sf) == IF sf.db # "" THEN ColName(sf) ELSE "rowid"

\* the field called name of the record type with fields sfList
FieldOf(sfList, name) == sfList[CHOOSE i \in 1..Len(sfList) : sfList[i].Name = name]

\* C28: the scan targets SelectArg returns for a pointer to a record of the
\* descriptor's type are addresses of the record's fields, one per column of
\* the generated SELECT list and in the same order: the i-th column of the
\* text is the column generated from the i-th target's field; the same holds
\* of the field list of every descriptor built, from which Retrieve takes
\* its targets
C28_ScanTargets ==
    /\ last.op = "SelectStr"
         => /\ ret.err = Nil
            /\ \A i \in 1..Len(ret.args) :
                 \E k \in 1..Len(last.who.sfList) : last.who.sfList[k].Name = ret.args[i]
            /\ ret.text =
                 SelectOver([i \in 1..Len(ret.args) |->
                               SelColumn(FieldOf(last.who.sfList, ret.args[i]))],
                            "rec", ret.tailStr)
    /\ (last.op = "Describe" /\ ret.err = Nil)
         => ret.dsc.selNameStr =
              Join([i \in 1..Len(ret.dsc.selSfList) |-> SelColumn(ret.dsc.selSfList[i])], ", ")

C28_Witness ==
    /\ last.op = "SelectStr"
    /\ ret.args = <<"F1", "F2", "F3">>
    /\ ret.dsc.idSf.Name = "F2"
    /\ ret.text = "SELECT F1, rowid, F3 FROM rec WHERE rowid = 1;"

\* the managed fields of a record type (those with a db tag), in
\* declaration order
RECURSIVE ManagedFields(_)
ManagedFields(sfList) ==
    IF sfList = <<>> THEN <<>>
    ELSE (IF Head(sfList).db # "" THEN <<Head(sfList)>> ELSE <<>>)
           \o ManagedFields(Tail(sfList))

\* the INSERT text over the column list names
InsertOver(verb, names, tblStr) ==
    verb \o " INTO " \o tblStr \o " (" \o Join(names, ", ") \o ") VALUES ("
      \o Join([i \in 1..Len(names) |-> "?"], ", ") \o ");"

\* C29: the INSERT and INSERT OR REPLACE texts name exactly the managed
\* columns in declaration order, with one placeholder per column; InsertArg
\* returns one value per placeholder, the i-th being the value of the field
\* from which the i-th named column was generated, and never the value of
\* the descriptor's primary-key field
C29_Insert ==
    last.op = "InsertStr"
      => /\ ret.err = Nil
         /\ ret.text = InsertOver(IF ret.replace THEN "INSERT OR REPLACE" ELSE "INSERT",
                                  ManagedNames(last.who.sfList), "rec")
         /\ Len(ret.args) = Len(ManagedFields(last.who.sfList))
         /\ \A i \in 1..Len(ret.args) :
              /\ ret.args[i] = RecOf(last.who.sfList)[ManagedFields(last.who.sfList)[i].Name]
              /\ ret.dsc.idPresent
                   => ret.args[i] # RecOf(last.who.sfList)[ret.dsc.idSf.Name]

C29_Witness ==
    /\ last.op = "InsertStr"
    /\ ret.replace
    /\ ret.dsc.idPresent /\ ret.dsc.idSf.Name = "F2"
    /\ ret.text = "INSERT OR REPLACE INTO rec (F1, F3) VALUES (?, ?);"
    /\ ret.args = <<11, 13>>

\* the field list asks for all managed columns: it is omitted or its first
\* name is "*"
AllColumns(fldNames) == fldNames = <<>> \/ fldNames[1] = "*"

\* the UPDATE text over the column list names
UpdateOver(names, tblStr) ==
    "UPDATE " \o tblStr \o " SET "
      \o Join([i \in 1..Len(names) |-> names[i] \o " = ?"], ", ") \o " WHERE rowid = ?;"

\* UpdateStr and UpdateArg of one field list, accepted for a record of the
\* type with fields sfList: the text sets the requested columns (all managed
\* columns, in declaration order, when the list asks for all), and the
\* arguments are the record's values of those columns in that order,
\* followed by the value of the primary key
Marshaled(sfList, out) ==
    /\ out.text = UpdateOver(IF AllColumns(out.fldNames) THEN ManagedNames(sfList)
                             ELSE out.fldNames, "rec")
    /\ Len(out.args) = 1 + (IF AllColumns(out.fldNames) THEN Len(ManagedNames(sfList))
                            ELSE Len(out.fldNames))
    /\ out.args[Len(out.args)] = RecOf(sfList)[out.dsc.idSf.Name]
    /\ \A i \in 1..(Len(out.args) - 1) :
         IF AllColumns(out.fldNames)
         THEN out.args[i] = RecOf(sfList)[ManagedFields(sfList)[i].Name]
         ELSE \E k \in 1..Len(sfList) :
                /\ sfList[k].db # "" /\ ColName(sfList[k]) = out.fldNames[i]
                /\ out.args[i] = RecOf(sfList)[sfList[k].Name]

\* C30: an update with an omitted field list or with "*" as first name
\* updates all managed columns, through the text generator and marshaler as
\* through DbType.Update; for every field list accepted, the arguments are
\* the record's values of the requested columns in the requested order
\* followed by the primary-key value, one per placeholder of the UPDATE text
\* of the same list
C30_Update ==
    /\ (last.op = "UpdateArg" /\ ret.dsc.idPresent /\ AllColumns(ret.fldNames))
         => ret.err = Nil
    /\ (last.op = "UpdateArg" /\ ret.err = Nil) => Marshaled(last.who.sfList, ret)
    /\ (last.op = "UpdateStr" /\ AllColumns(last.who.fldNames))
         => /\ ret.err = Nil
            /\ ret.text = "UPDATE rec SET A = ?, B = ? WHERE rowid = ?;"
            /\ ret.args = <<3, 4, last.who.id>>
            /\ ret.cmds = <<"UPDATE rec SET A = ?, B = ? WHERE rowid = ?;">>

\* the column names of the record type are pairwise distinct
DistinctColumns(sfList) ==
    \A i, k \in 1..Len(ManagedNames(sfList)) :
       ManagedNames(sfList)[i] = ManagedNames(sfList)[k] => i = k

\* the statement of C30 for the text generator and the marshaler on record
\* types with pairwise distinct column names, and for DbType.Update with "*"
C30_Distinct ==
    /\ (last.op = "UpdateArg" /\ ret.dsc.idPresent /\ AllColumns(ret.fldNames))
         => ret.err = Nil
    /\ (last.op = "UpdateArg" /\ ret.err = Nil /\ DistinctColumns(last.who.sfList))
         => Marshaled(last.who.sfList, ret)
    /\ (last.op = "UpdateStr" /\ AllColumns(last.who.fldNames))
         => /\ ret.err = Nil
            /\ ret.text = "UPDATE rec SET A = ?, B = ? WHERE rowid = ?;"
            /\ ret.args = <<3, 4, last.who.id>>
            /\ last.who.fldNames # <<>>
                 => ret.cmds = <<"UPDATE rec SET A = ?, B = ? WHERE rowid = ?;">>

\* DbType.Update refuses an omitted field list and sends nothing
C30_Omitted ==
    (last.op = "UpdateStr" /\ last.who.fldNames = <<>>)
      => /\ ret.dbErr = "at least one field name expected in function Update"
         /\ ret.cmds = <<>>

----------------------------------------------------------------------------
(* Properties of the index groups (SpecDsc) *)

\* the number a string of digits denotes
RECURSIVE Atoi(_)
Atoi(str) ==
    IF str = "" THEN 0
    ELSE 10 * Atoi(SubSeq(str, 1, Len(str) - 1)) + (Code(At(str, Len(str))) - 48)

\* the group name of a well-formed index tag of one segment (what precedes
\* its first digit) and its sequence number (the rest)
FirstDigit(tag) == CHOOSE i \in 1..Len(tag) : IsDigit(At(tag, i)) /\ \A h \in 1..(i - 1) : ~IsDigit(At(tag, h))

GroupOf(tag) == SubSeq(tag, 1, FirstDigit(tag) - 1)

SeqStrOf(tag) == SubSeq(tag, FirstDigit(tag), Len(tag))

\* the index groups of a record type and the fields in a group
Groups(sfList) ==
    {GroupOf(sfList[i].db_index) : i \in {h \in 1..Len(sfList) : sfList[h].db_index # ""}}

Members(sfList, g) ==
    {i \in 1..Len(sfList) : sfList[i].db_index # "" /\ GroupOf(sfList[i].db_index) = g}

\* the CREATE INDEX text of group g of table rec over the fields at the
\* positions o of sfList
IndexOver(sfList, g, o) ==
    "CREATE INDEX rec_" \o g \o " ON rec ("
      \o Join([a \in 1..Len(o) |-> ColName(sfList[o[a]])], ", ") \o ")"

\* C31: CreateStr returns one CREATE INDEX statement per index group, named
\* from the table name and the group name, whose columns are the group's
\* columns in ascending numeric order of their sequence numbers
C31_IndexOrder ==
    last.op = "CreateStr"
      => /\ Len(ret.first.idxStrList) = Cardinality(Groups(last.who.sfList))
         /\ \A g \in Groups(last.who.sfList) :
              \E o \in Orders(Members(last.who.sfList, g)) :
                 /\ \A a, b \in 1..Len(o) :
                      a < b => Atoi(SeqStrOf(last.who.sfList[o[a]].db_index))
                                 <= Atoi(SeqStrOf(last.who.sfList[o[b]].db_index))
                 /\ \E i \in 1..Len(ret.first.idxStrList) :
                      ret.first.idxStrList[i] = IndexOver(last.who.sfList, g, o)

\* CreateStr returns one CREATE INDEX statement per index group, whose
\* columns are the group's columns in ascending order of the sequence
\* numbers compared as strings
C31_StringOrder ==
    last.op = "CreateStr"
      => /\ Len(ret.first.idxStrList) = Cardinality(Groups(last.who.sfList))
         /\ \A g \in Groups(last.who.sfList) :
              \E o \in Orders(Members(last.who.sfList, g)) :
                 /\ \A a, b \in 1..Len(o) :
                      a < b => ~StrLess(SeqStrOf(last.who.sfList[o[b]].db_index),
                                        SeqStrOf(last.who.sfList[o[a]].db_index))
                 /\ \E i \in 1..Len(ret.first.idxStrList) :
                      ret.first.idxStrList[i] = IndexOver(last.who.sfList, g, o)

\* str without the white space at its ends
RECURSIVE Trim(_)
Trim(str) ==
    IF str = "" THEN ""
    ELSE IF IsSpace(At(str, 1)) THEN Trim(SubSeq(str, 2, Len(str)))
    ELSE IF IsSpace(At(str, Len(str))) THEN Trim(SubSeq(str, 1, Len(str) - 1))
    ELSE str

\* the segments of a db_index tag
Segments(tagStr) == IF tagStr = "" THEN <<>> ELSE Split(tagStr)

\* the places at which a segment divides into a group name without digits
\* and a sequence number of digits only, both not empty
Divisions(seg) ==
    {i \in 1..(Len(seg) - 1) :
        /\ \A h \in 1..i : ~IsDigit(At(seg, h))
        /\ \A h \in (i + 1)..Len(seg) : IsDigit(At(seg, h))}

WellFormed(seg) == Divisions(Trim(seg)) # {}

\* the group name and the sequence number of a well-formed segment
NameOf(seg) == SubSeq(Trim(seg), 1, CHOOSE i \in Divisions(Trim(seg)) : TRUE)

NumberOf(seg) ==
    SubSeq(Trim(seg), (CHOOSE i \in Divisions(Trim(seg)) : TRUE) + 1, Len(Trim(seg)))

\* the descriptor holds, for every segment of the tag, the column in the
\* group of the segment's name with the segment's sequence number
Grouped(dsc, tagStr) ==
    \A n \in 1..Len(Segments(tagStr)) :
       /\ NameOf(Segments(tagStr)[n]) \in DOMAIN dsc.idxMap
       /\ \E k \in 1..Len(dsc.idxMap[NameOf(Segments(tagStr)[n])]) :
            dsc.idxMap[NameOf(Segments(tagStr)[n])][k]
              = [nameStr |-> NumberOf(Segments(tagStr)[n]), fldStr |-> "F1"]

\* C32: building a descriptor fails with the malformed index tag error
\* whenever some segment of the db_index tag is not a group name without
\* digits followed by a sequence number of digits; when every segment is
\* well formed, the descriptor is built with the segment's prefix as the
\* group name and its digits as the sequence
C32_Malformed ==
    last.op = "DescribeTag"
      => IF \A n \in 1..Len(Segments(last.who.tagStr)) :
                WellFormed(Segments(last.who.tagStr)[n])
         THEN ret.err = Nil /\ Grouped(ret.dsc, last.who.tagStr)
         ELSE \E n \in 1..Len(Segments(last.who.tagStr)) :
                 /\ ~WellFormed(Segments(last.who.tagStr)[n])
                 /\ ret.err = "malformed index tag: " \o Segments(last.who.tagStr)[n]

\* a tag of well-formed segments is accepted with the groups and sequences
\* of its segments, and a build that fails with the malformed index tag
\* error names a segment that is not well formed
C32_Sound ==
    last.op = "DescribeTag"
      => /\ (\A n \in 1..Len(Segments(last.who.tagStr)) :
                WellFormed(Segments(last.who.tagStr)[n]))
              => ret.err = Nil /\ Grouped(ret.dsc, last.who.tagStr)
         /\ ret.err # Nil
              => \E n \in 1..Len(Segments(last.who.tagStr)) :
                    /\ ~WellFormed(Segments(last.who.tagStr)[n])
                    /\ ret.err = "malformed index tag: " \o Segments(last.who.tagStr)[n]

----------------------------------------------------------------------------
(* Properties of the argument marshalers (SpecArg) *)

\* no statement was executed or queried in the calls cl
RECURSIVE NoneRun(_)
NoneRun(cl) == cl = <<>> \/ (Head(cl).op \notin {"exec", "query"} /\ NoneRun(Tail(cl)))

\* every prepare among the calls cl succeeded
RECURSIVE AllPrepared(_)
AllPrepared(cl) == cl = <<>> \/ ((Head(cl).op = "prepare" => Head(cl).ok) /\ AllPrepared(Tail(cl)))

\* the error the marshaler of operation op must return for record rec and
\* descriptor dsc; Nil when the claim demands none
Demanded(op, dsc, rec) ==
    CASE op \in {"Insert", "InsertOrReplace"} ->
           IF rec.tp # dsc.recTp
           THEN "value passed into insert must be a structure (or pointer to a structure)"
           ELSE Nil
      [] op = "Update" ->
           IF ~dsc.idPresent THEN "update requires structure with primary ID"
           ELSE IF rec.tp # dsc.recTp
           THEN "value passed into update must be a structure (or pointer to a structure)"
           ELSE Nil
      [] op \in {"QueryRow", "Query"} ->
           IF rec.kind # "ptr" THEN "passed-in value must be a structure pointer"
           ELSE IF rec.tp # dsc.recTp
           THEN "passed in record for select does not match descriptor"
           ELSE Nil
      [] OTHER -> Nil

\* C33: an insert, update or query through a wrapper without error, with a
\* value whose type is not the descriptor's record type, with a non-pointer
\* for a query, or with an update on a descriptor without primary key,
\* executes no statement and leaves the wrapper with an error: the
\* marshaler's error, unless preparing the statement failed before the
\* marshaler was reached
C33_NoCoercion ==
    [][(/\ last'.op \in {"Insert", "InsertOrReplace", "Update", "QueryRow", "Query"}
        /\ share[sharePtr[last'.who]].errVal = Nil
        /\ Demanded(last'.op, DscOf(last'.who), ret'.arg[1]) # Nil)
         => /\ NoneRun(calls')
            /\ share'[sharePtr[last'.who]].errVal # Nil
            /\ AllPrepared(calls')
                 => share'[sharePtr[last'.who]].errVal
                      = Demanded(last'.op, DscOf(last'.who), ret'.arg[1])]_vars

C33_Witness ==
    /\ last.op = "Update" /\ last.who = "w2"
    /\ ret.arg[1].tp = "simpleType"
    /\ Len(calls) = 1 /\ calls[1].op = "prepare" /\ calls[1].ok
    /\ share[sharePtr["w2"]].errVal = "update requires structure with primary ID"

----------------------------------------------------------------------------
(* Properties of the statement cache (Spec) *)

\* the texts of the prepares among the first n calls of cl that succeeded
PreparedIn(cl, n) == {cl[i].text : i \in {j \in 1..n : cl[j].op = "prepare" /\ cl[j].ok}}

\* C34: an operation of the DbType handle prepares a text only when the
\* cache holds no statement for it, neither before the operation nor from an
\* earlier prepare of the operation; the cache keeps every entry it had,
\* gains exactly the texts whose prepare succeeded, and holds for each text
\* the statement prepared on the connection from that text
C34_Cache ==
    [][last'.who = "db" =>
         /\ \A i \in 1..Len(calls') :
                calls'[i].op = "prepare" =>
                    /\ calls'[i].text \notin DOMAIN db.stmtMap
                    /\ calls'[i].text \notin PreparedIn(calls', i - 1)
                    /\ calls'[i].tx = NoTx
         /\ \A text \in DOMAIN db.stmtMap :
                text \in DOMAIN db'.stmtMap /\ db'.stmtMap[text] = db.stmtMap[text]
         /\ DOMAIN db'.stmtMap = DOMAIN db.stmtMap \cup PreparedIn(calls', Len(calls'))
         /\ \A text \in DOMAIN db'.stmtMap :
                db'.stmtMap[text] = [text |-> text, tx |-> NoTx]]_vars

\* a query finds its statement in the cache: its text is run and not
\* prepared
C34_Witness ==
    /\ last = [op |-> "Query", who |-> "db"]
    /\ db.err = Nil
    /\ "SELECT rowid, A FROM rec;" \in DOMAIN db.stmtMap
    /\ Len(calls) = 1 /\ calls[1].op = "query" /\ calls[1].ok
    /\ calls[1].text = "SELECT rowid, A FROM rec;"

----------------------------------------------------------------------------
(* Properties of the statements sent while a transaction is open (Spec) *)

\* the transaction the session of who references as open
SessionTx(who) == IF who = "db" THEN db.tx ELSE share[sharePtr[who]].tx

\* every statement executed or queried in the calls cl ran in transaction t
RECURSIVE AllIn(_, _)
AllIn(cl, t) ==
    cl = <<>> \/ ((Head(cl).op \in {"exec", "query"} => Head(cl).tx = t) /\ AllIn(Tail(cl), t))

\* C35: an operation called while the session's transaction is open sends
\* every statement it executes or queries to that transaction
C35_InTx ==
    [][(last'.who \in Wrappers \cup {"db"} /\ SessionTx(last'.who) # NoTx)
         => AllIn(calls', SessionTx(last'.who))]_vars

\* what holds: the same of every operation but WrapType's Delete, Insert and
\* InsertOrReplace
C35_Others ==
    [][(/\ last'.who \in Wrappers \cup {"db"} /\ SessionTx(last'.who) # NoTx
        /\ ~(last'.who \in Wrappers /\ last'.op \in {"Delete", "Insert", "InsertOrReplace"}))
         => AllIn(calls', SessionTx(last'.who))]_vars

\* and of Insert and InsertOrReplace called on a wrapper that holds no insert
\* statement
C35_FreshInsert ==
    [][(/\ last'.who \in Wrappers /\ SessionTx(last'.who) # NoTx
        /\ last'.op \in {"Insert", "InsertOrReplace"}
        /\ wrap[last'.who].st = NoStmt)
         => AllIn(calls', SessionTx(last'.who))]_vars

----------------------------------------------------------------------------
(* Properties of the insert statement a wrapper keeps (Spec) *)

\* every statement executed in the calls cl has the text text
RECURSIVE AllText(_, _)
AllText(cl, text) ==
    cl = <<>> \/ ((Head(cl).op = "exec" => Head(cl).text = text) /\ AllText(Tail(cl), text))

\* the text an insert operation op is to execute
InsertText(op) == IF op = "InsertOrReplace" THEN InsertOrReplaceStr(glRecDsc) ELSE InsertStr(glRecDsc)

\* C36: the statement InsertOrReplace executes has the INSERT OR REPLACE
\* text and the statement Insert executes has the INSERT text, whatever the
\* wrapper was used for before
C36_OwnText ==
    [][(last'.who \in Wrappers /\ last'.op \in {"Insert", "InsertOrReplace"})
         => AllText(calls', InsertText(last'.op))]_vars

\* what holds: the same of a call on a wrapper that holds no insert
\* statement, and a call on a wrapper that holds one executes the text of
\* that statement
C36_KeptText ==
    [][(last'.who \in Wrappers /\ last'.op \in {"Insert", "InsertOrReplace"})
         => AllText(calls', IF wrap[last'.who].st = NoStmt THEN InsertText(last'.op)
                            ELSE wrap[last'.who].st.text)]_vars

----------------------------------------------------------------------------
(* Properties of the columns of the index statements (SpecDsc, Spec) *)

\* name, n times, separated by commas
RECURSIVE Repeated(_, _)
Repeated(name, n) == IF n = 1 THEN name ELSE name \o ", " \o Repeated(name, n - 1)

\* the CREATE TABLE and CREATE INDEX statements of a structure with one
\* managed field are over the column col
CreateOver(create, dsc, col) ==
    /\ create.createStr = "CREATE TABLE rec (" \o col \o " integer);"
    /\ \A i \in 1..Len(create.idxStrList) :
           \E g \in DOMAIN dsc.idxMap :
               create.idxStrList[i] = "CREATE INDEX rec_" \o g \o " ON rec ("
                                        \o Repeated(col, Len(dsc.idxMap[g])) \o ")"

\* C37: the index statements generated for a described structure name the
\* column of the table statement, which is the db tag of the field when
\* that is a name
C37_IndexColumns ==
    (last.op = "DescribeTag" /\ ret.err = Nil)
        => CreateOver(ret.create, ret.dsc, IF last.who.dbTag = "*" THEN "F1" ELSE last.who.dbTag)

\* what holds: they name the column when the db tag is "*", the column
\* being named as the field then
C37_StarColumns ==
    (last.op = "DescribeTag" /\ ret.err = Nil /\ last.who.dbTag = "*")
        => CreateOver(ret.create, ret.dsc, "F1")

\* the texts of the statements executed in the calls cl
RECURSIVE Executed(_)
Executed(cl) ==
    IF cl = <<>> THEN <<>>
    ELSE (IF Head(cl).op = "exec" THEN <<Head(cl).text>> ELSE <<>>) \o Executed(Tail(cl))

\* and a TableCreate of the DbType handle that ends without error drops the
\* index it creates, an index on a column of the table
C37_DropCreate ==
    [][(last'.op = "TableCreate" /\ db.err = Nil /\ db'.err = Nil)
         => Executed(calls') = << "DROP TABLE IF EXISTS rec;", "DROP INDEX IF EXISTS recA;",
                                  "CREATE TABLE rec (A integer);",
                                  "CREATE INDEX recA ON rec (A);" >>]_vars

----------------------------------------------------------------------------
(* Properties of the transaction a session references (Spec) *)

\* a begin among the calls cl failed
RECURSIVE BeginFailed(_)
BeginFailed(cl) ==
    cl # <<>> /\ ((Head(cl).op = "begin" /\ ~Head(cl).ok) \/ BeginFailed(Tail(cl)))

\* C38: the transaction the engine holds open is the one the session in use
\* references as open, and none when it references none; the session not in
\* use references none; after an operation whose begin failed the session
\* references none
C38_OneTx ==
    /\ api = "db" => db.tx = eng.open /\ \A sh \in Shares : share[sh].tx = NoTx
    /\ api = "wrap" => /\ \A w \in Wrappers : share[sharePtr[w]].tx = eng.open
                       /\ db.tx = NoTx
    /\ BeginFailed(calls) => db.tx = NoTx /\ \A w \in Wrappers : share[sharePtr[w]].tx = NoTx

\* a wrapper began a transaction, which the engine holds open and the joined
\* wrappers reference
C38_Witness ==
    /\ last.op = "TransactionBegin"
    /\ eng.open = LiveTx
    /\ share[sharePtr["w2"]].tx = LiveTx
    /\ Len(calls) = 1 /\ calls[1].op = "begin" /\ calls[1].ok

====
